---- MODULE Spec2Model ----
(***************************************************************************)
(* Model of the Scandium precision-landing core.                           *)
(*                                                                         *)
(* LandingFSM (src/src/scandium/control/fsm.py): one instance `fsm`, the   *)
(* snapshot last passed to tick(), the SystemOutputs it returned, and a    *)
(* second instance `fresh` used to compare a reset() instance with a newly *)
(* constructed one.                                                        *)
(*                                                                         *)
(* SafetySupervisor (src/src/scandium/control/safety.py): one instance     *)
(* `sup`, the clock its calls read, the arguments of the most recent       *)
(* check() and the SafetyStatus it returned; a second instance `twin`      *)
(* given the same check() calls; and the calls of clamp_velocity().       *)
(*                                                                         *)
(* ExpSmoother and KalmanFilter3D                                          *)
(* (src/src/scandium/perception/pose/filtering.py): one instance of each,  *)
(* `sm` and `kf`, with float64 values held as exact fractions, NaN or an   *)
(* infinity.                                                               *)
(*                                                                         *)
(* RateLimiter (src/src/scandium/utils/throttling.py): one instance shared *)
(* by two threads, each step of should_run() and wait_and_run() an action, *)
(* and one instance called from a single thread; BurstLimiter, one         *)
(* instance `bl`.                                                          *)
(*                                                                         *)
(* LandingTargetPublisher (src/src/scandium/mavlink/landing_target.py):    *)
(* its message count and rate limiter, and the most recent publish().      *)
(*                                                                         *)
(* HeartbeatMonitor (src/src/scandium/mavlink/heartbeat.py): one instance  *)
(* `hb`, the threads start() made, each step of _monitor_loop an action.   *)
(*                                                                         *)
(* GuidanceController (src/src/scandium/control/guidance.py): two          *)
(* compute_setpoint() calls on one controller.                             *)
(*                                                                         *)
(* Units: confidence, landability and variance are in hundredths,          *)
(* lateral_error_m and altitude_m in centimetres, speeds in cm/s,          *)
(* timestamps and clock readings in seconds.                               *)
(***************************************************************************)
EXTENDS Integers, Sequences, FiniteSets, TLC

VARIABLES
    fsm,            \* the LandingFSM instance: its mutable fields
    inputs,         \* the SystemInputs of the most recent tick() call
    outputs,        \* the SystemOutputs the most recent tick() returned
    last_op,        \* "init", "tick" or "reset": the most recent call
    search_streak,  \* history: length of the current run of qualifying Search ticks
    lost_since,     \* history: timestamp of the first tick of the current run of ticks without target
    clean_loss,     \* history: the current loss run began with no loss timer running
    fresh,          \* a newly constructed LandingFSM, fed the same ticks after a reset
    fresh_outputs,  \* the SystemOutputs `fresh` returned
    replaying,      \* TRUE once `fresh` is being driven alongside `fsm`
    stale_at_reset, \* history: the latest reset() found a counter, timer or reason set
    nominal_run,    \* history: ticks since construction/reset, all with the nominal landing inputs
    gates_passed    \* history: 1 once a tick passed the variance gate, 2 once a later tick passed the alignment gate

fsmvars == <<fsm, inputs, outputs, last_op, search_streak, lost_since, clean_loss,
             fresh, fresh_outputs, replaying, stale_at_reset, nominal_run,
             gates_passed>>

VARIABLES
    sup,                \* the SafetySupervisor instance: its mutable fields
    clock,              \* the latest value time.time() returned to the supervisor
    check_args,         \* the arguments of the most recent check() call
    status,             \* the SafetyStatus the most recent check() returned
    sup_op,             \* "init", "check" or "reset": the most recent supervisor call
    perception_seen_at, \* history: clock at the latest perception pet, or at construction/reset
    mavlink_seen_at,    \* history: clock at the latest mavlink pet, or at construction/reset
    prior_unsafe        \* history: the check before the most recent one reported violations

supvars == <<sup, clock, check_args, status, sup_op, perception_seen_at,
             mavlink_seen_at, prior_unsafe>>

VARIABLES
    clamp_args,     \* the arguments of the most recent clamp_velocity() call
    clamp_result,   \* the (vx, vy, vz) the most recent clamp_velocity() returned
    clamp_op        \* "init" or "clamp": whether clamp_velocity() has been called

clampvars == <<clamp_args, clamp_result, clamp_op>>

VARIABLES
    twin,           \* a second SafetySupervisor, given the same check() calls as `sup`
    twin_clock,     \* the latest value time.time() returned to `twin`
    twin_status,    \* the SafetyStatus the most recent twin.check() returned
    twin_altitude   \* the altitude argument of the most recent twin.check()

twinvars == <<twin, twin_clock, twin_status, twin_altitude>>

VARIABLES
    sm,             \* the ExpSmoother instance: its constructor arguments and fields
    sm_before,      \* the instance as it was before the most recent call
    sm_args,        \* the arguments of the most recent update() call
    sm_pose,        \* the FilteredPose the most recent update() returned
    sm_op,          \* "init", "update" or "reset": the most recent smoother call
    sm_calls        \* the number of update() calls made so far

smvars == <<sm, sm_before, sm_args, sm_pose, sm_op, sm_calls>>

VARIABLES
    kf,             \* the KalmanFilter3D instance: its fields
    kf_before,      \* the instance as it was before the most recent call
    kf_args,        \* the arguments of the most recent update() call
    kf_pose,        \* the FilteredPose the most recent update() returned
    kf_op,          \* "init", "update" or "reset": the most recent Kalman filter call
    kf_ctor_dt      \* history: the dt the filter was constructed with

kfvars == <<kf, kf_before, kf_args, kf_pose, kf_op, kf_ctor_dt>>

VARIABLES
    rl_last_time,   \* RateLimiter._last_time
    rl_lock,        \* RateLimiter._lock: 0 when free, else the thread holding it
    rl_pc,          \* where each thread is in should_run() or wait_and_run()
    rl_current,     \* each thread's local current_time
    rl_wake,        \* for a thread in time.sleep(), the clock value it sleeps until
    mono,           \* time.monotonic(), in ticks
    rl_grant,       \* history: the clock value when the latest grant was made
    rl_prev_grant,  \* history: the clock value when the grant before that was made
    rl_peak         \* history: the largest value _last_time has held

rlvars == <<rl_last_time, rl_lock, rl_pc, rl_current, rl_wake, mono, rl_grant,
            rl_prev_grant, rl_peak>>

VARIABLES
    rq_op,          \* "init", "should_run", "time_until_next" or "reset": the most recent call made by a single caller
    rq_ret,         \* what the most recent should_run() of that caller returned
    rq_wait,        \* what the most recent time_until_next() returned, in ticks
    rq_before,      \* history: _last_time when the most recent call began
    rq_at,          \* history: the clock value the most recent call read
    rq_fresh,       \* history: no should_run() has been made since construction or the latest reset()
    rq_was_fresh    \* history: rq_fresh when the most recent call began

rqvars == <<rq_op, rq_ret, rq_wait, rq_before, rq_at, rq_fresh, rq_was_fresh>>

VARIABLES
    bl,             \* the BurstLimiter instance: _tokens and _last_time
    bl_before,      \* history: the instance as it was before the most recent call
    bl_op,          \* "init" or "should_run": the most recent BurstLimiter call
    bl_ret,         \* what the most recent BurstLimiter.should_run() returned
    bl_run          \* history: calls made, the most recent included, since the bucket was full, no time elapsing between them

blvars == <<bl, bl_before, bl_op, bl_ret, bl_run>>

VARIABLES
    pub_msg_count,      \* LandingTargetPublisher._msg_count
    pub_op,             \* "init", "publish" or "reset": the most recent publisher call
    pub_force,          \* the force argument of the most recent publish()
    pub_ret,            \* what the most recent publish() returned
    pub_sent,           \* the most recent publish() called transport.send_landing_target
    pub_at,             \* history: the clock value when the most recent call was made
    pub_limiter_before, \* history: the limiter's _last_time when the most recent call began
    pub_true_count,     \* history: publish() calls that returned True since construction or the latest reset()
    pub_grant_at,       \* history: the clock value at the latest non-forced publish() the limiter granted
    pub_reset_after,    \* history: reset() has been called since that publish()
    pub_prev_grant_at,  \* history: pub_grant_at when the most recent call began
    pub_prev_reset      \* history: pub_reset_after when the most recent call began

pubvars == <<pub_msg_count, pub_op, pub_force, pub_ret, pub_sent, pub_at,
             pub_limiter_before, pub_true_count, pub_grant_at, pub_reset_after,
             pub_prev_grant_at, pub_prev_reset>>

VARIABLES
    hb,             \* the HeartbeatMonitor instance: its mutable fields
    hb_loop,        \* where each thread that may run _monitor_loop is
    hb_ctl,         \* "idle", or "joining" while stop() waits in join()
    hb_join_at,     \* the clock value when that join() began
    hb_now,         \* time.time(), in seconds
    hb_op,          \* the most recent step of the monitor, or "clock" when the clock moved since
    hb_msg,         \* the message the most recent _check_heartbeat received
    hb_before,      \* history: the instance as it was before the most recent step
    hb_made,        \* history: the most recent start() created a thread
    hb_stopped,     \* history: stop() has returned and start() has not been called since
    hb_late         \* history: with stop() returned, a heartbeat was sent or _connected was changed

hbvars == <<hb, hb_loop, hb_ctl, hb_join_at, hb_now, hb_op, hb_msg, hb_before,
            hb_made, hb_stopped, hb_late>>

VARIABLES
    gd_args,        \* the most recent pair of compute_setpoint() calls: the controller's descent_rate, the confidence and the two target offsets
    gd_far,         \* the GuidanceSetpoint returned for the offset beyond the alignment threshold
    gd_near,        \* the GuidanceSetpoint returned for the offset within it
    gd_op           \* "init" or "compute": whether compute_setpoint() has been called

gdvars == <<gd_args, gd_far, gd_near, gd_op>>

\* the variables of the components other than LandingFSM and SafetySupervisor
latervars == <<clampvars, twinvars, smvars, kfvars, rlvars, rqvars, blvars,
               pubvars, hbvars, gdvars>>

vars == <<fsmvars, supvars, latervars>>

\* what an action of one component leaves alone
exceptclamp == <<fsmvars, supvars, twinvars, smvars, kfvars, rlvars, rqvars,
                 blvars, pubvars, hbvars, gdvars>>
excepttwin == <<fsmvars, clampvars, smvars, kfvars, rlvars, rqvars, blvars,
                pubvars, hbvars, gdvars>>
exceptsm == <<fsmvars, supvars, clampvars, twinvars, kfvars, rlvars, rqvars,
              blvars, pubvars, hbvars, gdvars>>
exceptfilters == <<fsmvars, supvars, clampvars, twinvars, rlvars, rqvars,
                   blvars, pubvars, hbvars, gdvars>>
exceptrl == <<fsmvars, supvars, clampvars, twinvars, smvars, kfvars, rqvars,
              blvars, pubvars, hbvars, gdvars>>
exceptcalls == <<fsmvars, supvars, clampvars, twinvars, smvars, kfvars,
                 blvars, pubvars, hbvars, gdvars>>
exceptburst == <<fsmvars, supvars, clampvars, twinvars, smvars, kfvars,
                 rlvars, rqvars, pubvars, hbvars, gdvars>>
exceptpub == <<fsmvars, supvars, clampvars, twinvars, smvars, kfvars, rqvars,
               blvars, hbvars, gdvars>>
excepthb == <<fsmvars, supvars, clampvars, twinvars, smvars, kfvars, rlvars,
              rqvars, blvars, pubvars, gdvars>>
exceptgd == <<fsmvars, supvars, clampvars, twinvars, smvars, kfvars, rlvars,
              rqvars, blvars, pubvars, hbvars>>

-----------------------------------------------------------------------------
(* Bounds of the model *)

\* largest timestamp (seconds) a snapshot carries
MaxTime == 3

\* length up to which a run of nominal landing ticks is counted
MaxRun == 5

\* largest value (seconds) the supervisor's clock reaches
MaxClock == 4

\* largest number of update() calls made on the smoother
MaxUpdates == 3

\* largest number of LANDING_TARGET messages a publisher counts
MaxSent == 3

\* largest number of seconds the wall clock of the heartbeat monitor moves on
MaxBeat == 3

\* largest value (ticks) the monotonic clock reaches
MaxMono == 5

-----------------------------------------------------------------------------
(* LandingState and the constructor thresholds *)

LandingState == {"INIT", "IDLE", "SEARCH", "ACQUIRE", "ALIGN", "DESCEND",
                 "TOUCHDOWN", "ABORT", "FAILSAFE"}

\* Optional[float] None of _last_target_time
NoTime == -1

\* float("inf") of lateral_error_m
Inf == 1000000

acquire_confidence == 70
align_error_m == 25
abort_landability == 40
touchdown_altitude_m == 50
max_variance == 50
consecutive_frames_for_acquire == 3
target_lost_timeout_s == 2

-----------------------------------------------------------------------------
(* SystemInputs *)

SystemInputs(tv, tc, le, al, ls, mc, cc, arm, ab, ts, hp, var) ==
    [target_visible |-> tv, target_confidence |-> tc, lateral_error_m |-> le,
     altitude_m |-> al, landability_score |-> ls, mavlink_connected |-> mc,
     camera_connected |-> cc, arm_command |-> arm, abort_command |-> ab,
     timestamp |-> ts, human_present |-> hp, variance |-> var]

\* SystemInputs() with every field at its default, built at time 0
DefaultInputs ==
    SystemInputs(FALSE, 0, Inf, 10000, 100, TRUE, TRUE, FALSE, FALSE, 0, FALSE, 0)

\* <<target_confidence, variance, lateral_error_m, altitude_m>> samples around
\* the thresholds: each progress guard exactly met, and each one just missed
AllMet == <<70, 49, 25, 50>>

ProgressProfiles ==
    { AllMet, <<70, 49, 25, 51>>, <<69, 49, 25, 51>>,
      <<70, 50, 25, 51>>, <<70, 49, 26, 51>>, <<69, 50, Inf, 51>> }

\* landability_score samples: just below and exactly at abort_landability
LandabilityValues == {39, 40}

\* a link is down: every combination of abort_command and human_present,
\* with the target visible, the landing zone good and all progress guards met
LinkLossInputs ==
    { SystemInputs(TRUE, AllMet[1], AllMet[3], AllMet[4], 40, l[1], l[2], TRUE,
                   ab, 0, hp, AllMet[2]) :
        l \in { <<FALSE, TRUE>>, <<TRUE, FALSE>>, <<FALSE, FALSE>> },
        ab \in BOOLEAN, hp \in BOOLEAN }

\* links up and abort_command set: with and without human_present, target
\* and low landability, all progress guards met
AbortInputs ==
    { SystemInputs(tv, AllMet[1], AllMet[3], AllMet[4], ls, TRUE, TRUE, TRUE,
                   TRUE, 0, hp, AllMet[2]) :
        tv \in BOOLEAN, ls \in LandabilityValues, hp \in BOOLEAN }

\* links up, no abort_command, human_present set
HumanInputs ==
    { SystemInputs(tv, AllMet[1], AllMet[3], AllMet[4], ls, TRUE, TRUE, arm,
                   FALSE, 0, TRUE, AllMet[2]) :
        tv \in BOOLEAN, ls \in LandabilityValues, arm \in BOOLEAN }

\* links up and no abort/human signal: the snapshots the state handlers see
NominalInputs ==
    { SystemInputs(TRUE, p[1], p[3], p[4], ls, TRUE, TRUE, TRUE, FALSE, 0,
                   FALSE, p[2]) :
        ls \in LandabilityValues, p \in ProgressProfiles }
    \cup
    { SystemInputs(TRUE, p[1], p[3], p[4], 40, TRUE, TRUE, FALSE, FALSE, 0,
                   FALSE, p[2]) :
        p \in { AllMet, <<69, 49, 25, 51>> } }
    \cup
    { SystemInputs(FALSE, AllMet[1], AllMet[3], AllMet[4], ls, TRUE, TRUE, arm,
                   FALSE, 0, FALSE, AllMet[2]) :
        ls \in LandabilityValues, arm \in BOOLEAN }

\* the snapshots a tick is tried with, before the timestamp is filled in
InputSet == LinkLossInputs \cup AbortInputs \cup HumanInputs \cup NominalInputs

-----------------------------------------------------------------------------
(* LandingFSM *)

\* LandingFSM.__init__: the mutable fields of a new instance
NewFSM ==
    [state |-> "INIT", prev_state |-> "INIT", consecutive_detections |-> 0,
     last_target_time |-> NoTime, abort_reason |-> "None"]

transition_to(f, new_state) == [f EXCEPT !.state = new_state]

compute_gain(f) ==
    IF f.state = "SEARCH" THEN 50
    ELSE IF f.state = "ACQUIRE" THEN 70
    ELSE 100

\* _make_output that leaves state_changed at its default
make_output_no_state_changed(f) ==
    [state |-> f.state,
     publish_landing_target |-> f.state \in {"ACQUIRE", "ALIGN", "DESCEND"},
     abort_reason |-> f.abort_reason,
     confidence_gain |-> compute_gain(f),
     state_changed |-> FALSE]

make_output(f) ==
    [state |-> f.state,
     publish_landing_target |-> f.state \in {"ACQUIRE", "ALIGN", "DESCEND"},
     abort_reason |-> f.abort_reason,
     confidence_gain |-> compute_gain(f),
     state_changed |-> f.state # f.prev_state]

handle_init(f, in) ==
    IF in.mavlink_connected /\ in.camera_connected
    THEN transition_to(f, "IDLE")
    ELSE f

\* handle_idle that asks for acquire_confidence before going to Acquire
handle_idle_needs_confidence(f, in) ==
    IF in.arm_command
    THEN IF in.target_visible /\ in.target_confidence >= acquire_confidence
         THEN transition_to(f, "ACQUIRE")
         ELSE transition_to(f, "SEARCH")
    ELSE f

handle_idle(f, in) ==
    IF in.arm_command
    THEN IF in.target_visible
         THEN transition_to(f, "ACQUIRE")
         ELSE transition_to(f, "SEARCH")
    ELSE f

\* handle_search that enters Acquire with the count left as it is
handle_search_keeps_count(f, in) ==
    IF in.target_visible /\ in.target_confidence >= acquire_confidence
    THEN LET g == [f EXCEPT !.consecutive_detections = @ + 1] IN
         IF g.consecutive_detections >= consecutive_frames_for_acquire
         THEN transition_to(g, "ACQUIRE")
         ELSE g
    ELSE [f EXCEPT !.consecutive_detections = 0]

\* handle_search without the else branch that clears the count
handle_search_no_reset(f, in) ==
    IF in.target_visible /\ in.target_confidence >= acquire_confidence
    THEN LET g == [f EXCEPT !.consecutive_detections = @ + 1] IN
         IF g.consecutive_detections >= consecutive_frames_for_acquire
         THEN [transition_to(g, "ACQUIRE") EXCEPT !.consecutive_detections = 0]
         ELSE g
    ELSE f

handle_search(f, in) ==
    IF in.target_visible /\ in.target_confidence >= acquire_confidence
    THEN LET g == [f EXCEPT !.consecutive_detections = @ + 1] IN
         IF g.consecutive_detections >= consecutive_frames_for_acquire
         THEN [transition_to(g, "ACQUIRE") EXCEPT !.consecutive_detections = 0]
         ELSE g
    ELSE [f EXCEPT !.consecutive_detections = 0]

\* handle_acquire that enters Descend, not Align, once the variance is low
handle_acquire_skips_align(f, in) ==
    IF ~in.target_visible
    THEN transition_to(f, "SEARCH")
    ELSE IF in.landability_score < abort_landability
    THEN [transition_to(f, "ABORT") EXCEPT !.abort_reason = "low_landability"]
    ELSE IF in.variance < max_variance
    THEN transition_to(f, "DESCEND")
    ELSE f

\* handle_acquire with the variance gate compared by <= instead of <
handle_acquire_le(f, in) ==
    IF ~in.target_visible
    THEN transition_to(f, "SEARCH")
    ELSE IF in.landability_score < abort_landability
    THEN [transition_to(f, "ABORT") EXCEPT !.abort_reason = "low_landability"]
    ELSE IF in.variance <= max_variance
    THEN transition_to(f, "ALIGN")
    ELSE f

handle_acquire(f, in) ==
    IF ~in.target_visible
    THEN transition_to(f, "SEARCH")
    ELSE IF in.landability_score < abort_landability
    THEN [transition_to(f, "ABORT") EXCEPT !.abort_reason = "low_landability"]
    ELSE IF in.variance < max_variance
    THEN transition_to(f, "ALIGN")
    ELSE f

\* handle_target_lost with the timeout compared by >= instead of >
handle_target_lost_ge(f, in) ==
    LET g == IF f.last_target_time = NoTime
             THEN [f EXCEPT !.last_target_time = in.timestamp]
             ELSE f
    IN IF in.timestamp - g.last_target_time >= target_lost_timeout_s
       THEN [transition_to(g, "SEARCH") EXCEPT !.last_target_time = NoTime]
       ELSE g

handle_target_lost(f, in) ==
    LET g == IF f.last_target_time = NoTime
             THEN [f EXCEPT !.last_target_time = in.timestamp]
             ELSE f
    IN IF in.timestamp - g.last_target_time > target_lost_timeout_s
       THEN [transition_to(g, "SEARCH") EXCEPT !.last_target_time = NoTime]
       ELSE g

\* handle_align with the alignment guard compared by < instead of <=
handle_align_lt(f, in) ==
    IF ~in.target_visible
    THEN handle_target_lost(f, in)
    ELSE IF in.landability_score < abort_landability
    THEN [transition_to(f, "ABORT") EXCEPT !.abort_reason = "low_landability"]
    ELSE IF in.lateral_error_m < align_error_m
    THEN transition_to(f, "DESCEND")
    ELSE f

handle_align(f, in) ==
    IF ~in.target_visible
    THEN handle_target_lost(f, in)
    ELSE IF in.landability_score < abort_landability
    THEN [transition_to(f, "ABORT") EXCEPT !.abort_reason = "low_landability"]
    ELSE IF in.lateral_error_m <= align_error_m
    THEN transition_to(f, "DESCEND")
    ELSE f

\* handle_descend with the touchdown guard tested before target_visible
handle_descend_blind_touchdown(f, in) ==
    IF in.altitude_m <= touchdown_altitude_m
    THEN transition_to(f, "TOUCHDOWN")
    ELSE IF ~in.target_visible
    THEN handle_target_lost(f, in)
    ELSE IF in.landability_score < abort_landability
    THEN [transition_to(f, "ABORT") EXCEPT !.abort_reason = "low_landability"]
    ELSE f

\* handle_descend with the touchdown guard tested before the landability guard
handle_descend_progress_first(f, in) ==
    IF ~in.target_visible
    THEN handle_target_lost(f, in)
    ELSE IF in.altitude_m <= touchdown_altitude_m
    THEN transition_to(f, "TOUCHDOWN")
    ELSE IF in.landability_score < abort_landability
    THEN [transition_to(f, "ABORT") EXCEPT !.abort_reason = "low_landability"]
    ELSE f

handle_descend(f, in) ==
    IF ~in.target_visible
    THEN handle_target_lost(f, in)
    ELSE IF in.landability_score < abort_landability
    THEN [transition_to(f, "ABORT") EXCEPT !.abort_reason = "low_landability"]
    ELSE IF in.altitude_m <= touchdown_altitude_m
    THEN transition_to(f, "TOUCHDOWN")
    ELSE f

handle_touchdown(f, in) == f

handle_abort(f, in) == f

handle_failsafe(f, in) == f

\* the state-specific logic written with if instead of elif: the handler of
\* the state just entered from Init or Idle runs in the same tick
dispatch_fallthrough(f, in) ==
    LET a == IF f.state = "INIT" THEN handle_init(f, in) ELSE f
        b == IF a.state = "IDLE" THEN handle_idle(a, in) ELSE a
    IN CASE f.state \in {"INIT", "IDLE"} -> b
         [] f.state = "SEARCH"    -> handle_search(f, in)
         [] f.state = "ACQUIRE"   -> handle_acquire(f, in)
         [] f.state = "ALIGN"     -> handle_align(f, in)
         [] f.state = "DESCEND"   -> handle_descend(f, in)
         [] f.state = "TOUCHDOWN" -> handle_touchdown(f, in)
         [] f.state = "ABORT"     -> handle_abort(f, in)
         [] f.state = "FAILSAFE"  -> handle_failsafe(f, in)

\* LandingFSM.tick, "State-specific logic": the handler of the current state
dispatch(f, in) ==
    CASE f.state = "INIT"      -> handle_init(f, in)
      [] f.state = "IDLE"      -> handle_idle(f, in)
      [] f.state = "SEARCH"    -> handle_search(f, in)
      [] f.state = "ACQUIRE"   -> handle_acquire(f, in)
      [] f.state = "ALIGN"     -> handle_align(f, in)
      [] f.state = "DESCEND"   -> handle_descend(f, in)
      [] f.state = "TOUCHDOWN" -> handle_touchdown(f, in)
      [] f.state = "ABORT"     -> handle_abort(f, in)
      [] f.state = "FAILSAFE"  -> handle_failsafe(f, in)

\* tick whose link test enters Failsafe without recording a reason
tick_link_loss_no_reason(f, in) ==
    LET f0 == [f EXCEPT !.prev_state = f.state] IN
    IF ~in.mavlink_connected \/ ~in.camera_connected
    THEN transition_to(f0, "FAILSAFE")
    ELSE IF in.abort_command
    THEN [transition_to(f0, "ABORT") EXCEPT !.abort_reason = "external_command"]
    ELSE IF in.human_present
            /\ f0.state \notin {"INIT", "IDLE", "ABORT", "FAILSAFE"}
    THEN [transition_to(f0, "ABORT") EXCEPT !.abort_reason = "human_present"]
    ELSE dispatch(f0, in)

\* tick with the abort_command test placed before the link test
tick_abort_first(f, in) ==
    LET f0 == [f EXCEPT !.prev_state = f.state] IN
    IF in.abort_command
    THEN [transition_to(f0, "ABORT") EXCEPT !.abort_reason = "external_command"]
    ELSE IF ~in.mavlink_connected \/ ~in.camera_connected
    THEN [transition_to(f0, "FAILSAFE") EXCEPT !.abort_reason = "link_lost"]
    ELSE IF in.human_present
            /\ f0.state \notin {"INIT", "IDLE", "ABORT", "FAILSAFE"}
    THEN [transition_to(f0, "ABORT") EXCEPT !.abort_reason = "human_present"]
    ELSE dispatch(f0, in)

\* tick with the human_present test placed before the abort_command test
tick_human_first(f, in) ==
    LET f0 == [f EXCEPT !.prev_state = f.state] IN
    IF ~in.mavlink_connected \/ ~in.camera_connected
    THEN [transition_to(f0, "FAILSAFE") EXCEPT !.abort_reason = "link_lost"]
    ELSE IF in.human_present
            /\ f0.state \notin {"INIT", "IDLE", "ABORT", "FAILSAFE"}
    THEN [transition_to(f0, "ABORT") EXCEPT !.abort_reason = "human_present"]
    ELSE IF in.abort_command
    THEN [transition_to(f0, "ABORT") EXCEPT !.abort_reason = "external_command"]
    ELSE dispatch(f0, in)

\* tick with Touchdown added to the states the human_present test skips
tick_human_skips_touchdown(f, in) ==
    LET f0 == [f EXCEPT !.prev_state = f.state] IN
    IF ~in.mavlink_connected \/ ~in.camera_connected
    THEN [transition_to(f0, "FAILSAFE") EXCEPT !.abort_reason = "link_lost"]
    ELSE IF in.abort_command
    THEN [transition_to(f0, "ABORT") EXCEPT !.abort_reason = "external_command"]
    ELSE IF in.human_present
            /\ f0.state \notin {"INIT", "IDLE", "TOUCHDOWN", "ABORT", "FAILSAFE"}
    THEN [transition_to(f0, "ABORT") EXCEPT !.abort_reason = "human_present"]
    ELSE dispatch(f0, in)

\* tick whose human_present test does not skip Init
tick_human_in_init(f, in) ==
    LET f0 == [f EXCEPT !.prev_state = f.state] IN
    IF ~in.mavlink_connected \/ ~in.camera_connected
    THEN [transition_to(f0, "FAILSAFE") EXCEPT !.abort_reason = "link_lost"]
    ELSE IF in.abort_command
    THEN [transition_to(f0, "ABORT") EXCEPT !.abort_reason = "external_command"]
    ELSE IF in.human_present
            /\ f0.state \notin {"IDLE", "ABORT", "FAILSAFE"}
    THEN [transition_to(f0, "ABORT") EXCEPT !.abort_reason = "human_present"]
    ELSE dispatch(f0, in)

\* LandingFSM.tick: the instance after the call
tick(f, in) ==
    LET f0 == [f EXCEPT !.prev_state = f.state] IN
    IF ~in.mavlink_connected \/ ~in.camera_connected
    THEN [transition_to(f0, "FAILSAFE") EXCEPT !.abort_reason = "link_lost"]
    ELSE IF in.abort_command
    THEN [transition_to(f0, "ABORT") EXCEPT !.abort_reason = "external_command"]
    ELSE IF in.human_present
            /\ f0.state \notin {"INIT", "IDLE", "ABORT", "FAILSAFE"}
    THEN [transition_to(f0, "ABORT") EXCEPT !.abort_reason = "human_present"]
    ELSE dispatch(f0, in)

\* reset that leaves _last_target_time as it was
reset_keeps_timer(f) ==
    [f EXCEPT !.state = "INIT", !.prev_state = "INIT",
              !.consecutive_detections = 0, !.abort_reason = "None"]

\* LandingFSM.reset: the instance after the call
reset(f) ==
    [f EXCEPT !.state = "INIT", !.prev_state = "INIT",
              !.consecutive_detections = 0, !.last_target_time = NoTime,
              !.abort_reason = "None"]

-----------------------------------------------------------------------------
(* SafetySupervisor *)

\* SafetyLimits defaults
max_lateral_speed_mps == 150
max_descent_speed_mps == 70
perception_timeout_s == 1
mavlink_timeout_s == 3

\* the landability score below which check reports critical_landability
critical_landability_score == 20

\* the arguments check() is tried with: at the default altitude every
\* combination of the flags with speeds and landability at and just past their
\* limits, and on the ground every combination of the flags
CheckArgs ==
    [perception_active : BOOLEAN, mavlink_active : BOOLEAN,
     lateral_speed : {150, 151}, descent_speed : {70, 71},
     altitude : {10000}, landability_score : {19, 20},
     human_present : BOOLEAN]
    \cup
    [perception_active : BOOLEAN, mavlink_active : BOOLEAN,
     lateral_speed : {150}, descent_speed : {70},
     altitude : {0}, landability_score : {20},
     human_present : BOOLEAN]

\* check() with every argument at its default
DefaultCheckArgs ==
    [perception_active |-> TRUE, mavlink_active |-> TRUE, lateral_speed |-> 0,
     descent_speed |-> 0, altitude |-> 10000, landability_score |-> 100,
     human_present |-> FALSE]

\* SafetySupervisor.__init__ with time.time() returning t
NewSupervisor(t) ==
    [last_perception_time |-> t, last_mavlink_time |-> t, violations |-> <<>>]

\* the SafetyStatus check() builds from the instance
SafetyStatus(s) ==
    [is_safe |-> Len(s.violations) = 0,
     violations |-> s.violations,
     last_perception_time |-> s.last_perception_time,
     last_mavlink_time |-> s.last_mavlink_time]

\* if cond: self._violations.append(tag)
AppendIf(v, cond, tag) == IF cond THEN Append(v, tag) ELSE v

\* SafetyLimits.min_safe_altitude_m, in centimetres
min_safe_altitude_m == 200

\* check that reports an altitude below min_safe_altitude_m
check_altitude_floor(s, a, now) ==
    LET lp == IF a.perception_active THEN now ELSE s.last_perception_time
        lm == IF a.mavlink_active THEN now ELSE s.last_mavlink_time
        v1 == AppendIf(<<>>, now - lp > perception_timeout_s, "perception_timeout")
        v2 == AppendIf(v1, now - lm > mavlink_timeout_s, "mavlink_timeout")
        v3 == AppendIf(v2, a.lateral_speed > max_lateral_speed_mps, "lateral_speed_exceeded")
        v4 == AppendIf(v3, a.descent_speed > max_descent_speed_mps, "descent_speed_exceeded")
        v5 == AppendIf(v4, a.altitude < min_safe_altitude_m, "altitude_too_low")
        v6 == AppendIf(v5, a.human_present, "human_detected")
        v7 == AppendIf(v6, a.landability_score < critical_landability_score,
                       "critical_landability")
    IN [last_perception_time |-> lp, last_mavlink_time |-> lm, violations |-> v7]

\* check that does not clear the violations of the call before
check_no_clear(s, a, now) ==
    LET lp == IF a.perception_active THEN now ELSE s.last_perception_time
        lm == IF a.mavlink_active THEN now ELSE s.last_mavlink_time
        v1 == AppendIf(s.violations, now - lp > perception_timeout_s, "perception_timeout")
        v2 == AppendIf(v1, now - lm > mavlink_timeout_s, "mavlink_timeout")
        v3 == AppendIf(v2, a.lateral_speed > max_lateral_speed_mps, "lateral_speed_exceeded")
        v4 == AppendIf(v3, a.descent_speed > max_descent_speed_mps, "descent_speed_exceeded")
        v5 == AppendIf(v4, a.human_present, "human_detected")
        v6 == AppendIf(v5, a.landability_score < critical_landability_score,
                       "critical_landability")
    IN [last_perception_time |-> lp, last_mavlink_time |-> lm, violations |-> v6]

\* check that tests the watchdogs before it pets them
check_pet_after_test(s, a, now) ==
    LET lp == IF a.perception_active THEN now ELSE s.last_perception_time
        lm == IF a.mavlink_active THEN now ELSE s.last_mavlink_time
        v1 == AppendIf(<<>>, now - s.last_perception_time > perception_timeout_s,
                       "perception_timeout")
        v2 == AppendIf(v1, now - s.last_mavlink_time > mavlink_timeout_s,
                       "mavlink_timeout")
        v3 == AppendIf(v2, a.lateral_speed > max_lateral_speed_mps, "lateral_speed_exceeded")
        v4 == AppendIf(v3, a.descent_speed > max_descent_speed_mps, "descent_speed_exceeded")
        v5 == AppendIf(v4, a.human_present, "human_detected")
        v6 == AppendIf(v5, a.landability_score < critical_landability_score,
                       "critical_landability")
    IN [last_perception_time |-> lp, last_mavlink_time |-> lm, violations |-> v6]

\* SafetySupervisor.check with time.time() returning now: the instance after the call
check(s, a, now) ==
    LET lp == IF a.perception_active THEN now ELSE s.last_perception_time
        lm == IF a.mavlink_active THEN now ELSE s.last_mavlink_time
        v1 == AppendIf(<<>>, now - lp > perception_timeout_s, "perception_timeout")
        v2 == AppendIf(v1, now - lm > mavlink_timeout_s, "mavlink_timeout")
        v3 == AppendIf(v2, a.lateral_speed > max_lateral_speed_mps, "lateral_speed_exceeded")
        v4 == AppendIf(v3, a.descent_speed > max_descent_speed_mps, "descent_speed_exceeded")
        v5 == AppendIf(v4, a.human_present, "human_detected")
        v6 == AppendIf(v5, a.landability_score < critical_landability_score,
                       "critical_landability")
    IN [last_perception_time |-> lp, last_mavlink_time |-> lm, violations |-> v6]

\* the tags of a violations list
Tags(v) == { v[i] : i \in 1 .. Len(v) }

\* the violations that force an abort
critical == {"perception_timeout", "mavlink_timeout", "human_detected"}

\* should_abort that counts critical_landability as critical
should_abort_with_landability(s) ==
    Tags(s.violations) \cap (critical \cup {"critical_landability"}) # {}

\* SafetySupervisor.should_abort
should_abort(s) == Tags(s.violations) \cap critical # {}

\* SafetySupervisor.reset with the two time.time() calls returning t1 and t2
supervisor_reset(s, t1, t2) ==
    [last_perception_time |-> t1, last_mavlink_time |-> t2, violations |-> <<>>]

\* the arguments clamp_velocity() is tried with: lateral velocities whose
\* magnitude is a whole number of cm/s (below, at and above the limits, in
\* every quadrant and along each axis), vertical velocities climbing, zero,
\* below, at and above the descent limits, and confidences (hundredths)
\* from 0 to 1
ClampLateral ==
    {<<0, 0>>, <<30, 40>>, <<90, 120>>, <<120, 160>>, <<-120, 160>>,
     <<120, -160>>, <<-90, -120>>, <<0, 200>>, <<-200, 0>>, <<45, 60>>}

ClampArgs ==
    [lateral : ClampLateral, vz : {-100, 0, 35, 36, 70, 71},
     confidence : {0, 50, 100}]

\* clamp_velocity(0, 0, 0) with the default confidence
DefaultClampArgs == [lateral |-> <<0, 0>>, vz |-> 0, confidence |-> 100]

\* the integer r with r*r = n: (vx**2 + vy**2) ** 0.5 for the lateral
\* velocities of ClampLateral, whose squared magnitude is a perfect square
Root(n) == CHOOSE r \in 0 .. n : r * r <= n /\ (r + 1) * (r + 1) > n

\* each lateral component cut to the limit on its own
clamp_velocity_per_axis(vx, vy, vz, confidence) ==
    LET lat_limit == (max_lateral_speed_mps * confidence) \div 100
        desc_limit == (max_descent_speed_mps * confidence) \div 100
        cut(v) == IF v > lat_limit THEN lat_limit
                  ELSE IF v < -lat_limit THEN -lat_limit ELSE v
    IN  <<cut(vx), cut(vy), IF vz > desc_limit THEN desc_limit ELSE vz>>

\* SafetySupervisor.clamp_velocity: confidence in hundredths, so the limits
\* are limit * confidence / 100; vx * scale is computed as vx * lat_limit /
\* lateral_speed, which is exact for the arguments of ClampArgs
clamp_velocity(vx, vy, vz, confidence) ==
    LET lat_limit == (max_lateral_speed_mps * confidence) \div 100
        desc_limit == (max_descent_speed_mps * confidence) \div 100
        lateral_speed == Root(vx * vx + vy * vy)
        scaled(v) == IF lateral_speed > lat_limit
                     THEN (v * lat_limit) \div lateral_speed
                     ELSE v
    IN  <<scaled(vx), scaled(vy), IF vz > desc_limit THEN desc_limit ELSE vz>>

-----------------------------------------------------------------------------
(* float64 values: a finite value is the exact fraction n/d in lowest terms; *)
(* beside them NaN and the two infinities, with IEEE 754 arithmetic          *)

RECURSIVE GCD(_, _)
GCD(a, b) == IF b = 0 THEN a ELSE GCD(b, a % b)

Abs(x) == IF x < 0 THEN -x ELSE x

Sgn(x) == IF x > 0 THEN 1 ELSE IF x < 0 THEN -1 ELSE 0

NaN == [k |-> "nan", n |-> 0, d |-> 1]
PosInf == [k |-> "inf", n |-> 1, d |-> 1]
NegInf == [k |-> "inf", n |-> -1, d |-> 1]

\* the finite value n/d, d # 0
Frac(n, d) ==
    LET g == GCD(Abs(n), Abs(d))
    IN  [k |-> "fin", n |-> (Sgn(d) * n) \div g, d |-> Abs(d) \div g]

Num(i) == Frac(i, 1)

IsNaN(a) == a.k = "nan"
IsFinite(a) == a.k = "fin"

\* the infinity with the sign of s
InfOf(s) == IF s > 0 THEN PosInf ELSE NegInf

FNeg(a) == IF IsNaN(a) THEN NaN ELSE [a EXCEPT !.n = -a.n]

FAdd(a, b) ==
    IF IsNaN(a) \/ IsNaN(b) THEN NaN
    ELSE IF a.k = "inf" THEN (IF b.k = "inf" /\ b.n # a.n THEN NaN ELSE a)
    ELSE IF b.k = "inf" THEN b
    ELSE LET g == GCD(a.d, b.d)
         IN  Frac(a.n * (b.d \div g) + b.n * (a.d \div g), (a.d \div g) * b.d)

FSub(a, b) == FAdd(a, FNeg(b))

FMul(a, b) ==
    IF IsNaN(a) \/ IsNaN(b) THEN NaN
    ELSE IF a.k = "inf" \/ b.k = "inf"
         THEN (IF a.n = 0 \/ b.n = 0 THEN NaN ELSE InfOf(Sgn(a.n) * Sgn(b.n)))
    ELSE Frac(a.n * b.n, a.d * b.d)

\* numpy division: x/0 is an infinity and 0/0 is NaN
FDiv(a, b) ==
    IF IsNaN(a) \/ IsNaN(b) THEN NaN
    ELSE IF b.k = "inf" THEN (IF a.k = "inf" THEN NaN ELSE Num(0))
    ELSE IF b.n = 0 THEN (IF a.n = 0 THEN NaN ELSE InfOf(a.n))
    ELSE IF a.k = "inf" THEN InfOf(Sgn(a.n) * Sgn(b.n))
    ELSE Frac(a.n * b.d, a.d * b.n)

\* a > b: FALSE when either is NaN; finite values are compared by their whole
\* parts and then by their fractional parts
FGt(a, b) ==
    IF IsNaN(a) \/ IsNaN(b) THEN FALSE
    ELSE IF a.k = "inf" THEN a.n > 0 /\ ~(b.k = "inf" /\ b.n > 0)
    ELSE IF b.k = "inf" THEN b.n < 0
    ELSE LET wa == a.n \div a.d
             wb == b.n \div b.d
             g == GCD(a.d, b.d)
         IN  IF wa # wb THEN wa > wb
             ELSE (a.n - wa * a.d) * (b.d \div g) > (b.n - wb * b.d) * (a.d \div g)

\* np.maximum: NaN propagates
FMaximum(a, b) ==
    IF IsNaN(a) \/ IsNaN(b) THEN NaN ELSE IF FGt(b, a) THEN b ELSE a

\* arrays of shape (3,)
Axes == 1 .. 3
VFull(c) == [i \in Axes |-> c]
VAdd(u, v) == [i \in Axes |-> FAdd(u[i], v[i])]
VSub(u, v) == [i \in Axes |-> FSub(u[i], v[i])]
VScale(c, v) == [i \in Axes |-> FMul(c, v[i])]
VOver(v, c) == [i \in Axes |-> FDiv(v[i], c)]
VSum(v) == FAdd(FAdd(v[1], v[2]), v[3])
VFinite(v) == \A i \in Axes : IsFinite(v[i])

\* an array holding the whole numbers x, y, z
Vec(x, y, z) == <<Num(x), Num(y), Num(z)>>

\* None, where the code holds an array or None
NoVec == <<>>

-----------------------------------------------------------------------------
(* ExpSmoother *)

\* the constructor arguments the smoother is built with: alpha = 0.5 with
\* the default threshold and initial variance, the same with the threshold
\* of the outlier test of test_filtering.py, and alpha = 1 with an initial
\* variance of 0
SmootherConfigs ==
    {[alpha |-> Frac(1, 2), outlier_threshold |-> Num(4), initial_variance |-> Num(1)],
     [alpha |-> Frac(1, 2), outlier_threshold |-> Num(2), initial_variance |-> Num(1)],
     [alpha |-> Num(1), outlier_threshold |-> Num(2), initial_variance |-> Num(0)]}

\* ExpSmoother(alpha=0.5)
DefaultSmootherConfig ==
    [alpha |-> Frac(1, 2), outlier_threshold |-> Num(4), initial_variance |-> Num(1)]

\* the measurements update() is given: three positions along x, one with a
\* NaN component and one with an infinite component
Measurements ==
    {Vec(1, 1, 1), Vec(3, 1, 1), Vec(9, 1, 1), <<NaN, Num(1), Num(1)>>,
     <<PosInf, Num(1), Num(1)>>}

\* measurement_variance and timestamp of an update() call
UpdateExtras ==
    {[measurement_variance |-> Frac(1, 10), timestamp |-> 0],
     [measurement_variance |-> Frac(1, 10), timestamp |-> 1],
     [measurement_variance |-> Num(0), timestamp |-> 1]}

UpdateArgs(m, x) ==
    [measurement |-> m, measurement_variance |-> x.measurement_variance,
     timestamp |-> x.timestamp]

\* update([0, 0, 0]) with the default variance and timestamp
DefaultUpdateArgs ==
    [measurement |-> Vec(0, 0, 0), measurement_variance |-> Frac(1, 10),
     timestamp |-> 0]

\* ExpSmoother.__init__
NewSmoother(cfg) ==
    [alpha |-> cfg.alpha, outlier_threshold |-> cfg.outlier_threshold,
     initial_variance |-> cfg.initial_variance,
     state |-> NoVec, variance |-> NoVec, last_time |-> NoTime,
     velocity |-> Vec(0, 0, 0)]

\* ExpSmoother.is_initialized
is_initialized(s) == s.state # NoVec

\* the floor _is_outlier puts under the variance before dividing by it
var_floor == Frac(1, 1000000)

\* the squared Mahalanobis distance _is_outlier computes
mahal_sq(s, measurement) ==
    LET diff == VSub(measurement, s.state)
        var_safe == [i \in Axes |-> FMaximum(s.variance[i], var_floor)]
    IN  VSum([i \in Axes |-> FDiv(FMul(diff[i], diff[i]), var_safe[i])])

\* a measurement at the threshold is an outlier too
is_outlier_at_threshold(s, measurement) ==
    IF s.state = NoVec \/ s.variance = NoVec THEN FALSE
    ELSE ~FGt(FMul(s.outlier_threshold, s.outlier_threshold),
              mahal_sq(s, measurement))

\* ExpSmoother._is_outlier; sqrt(mahal_sq) > outlier_threshold is decided as
\* mahal_sq > outlier_threshold squared, the thresholds being positive
is_outlier(s, measurement) ==
    IF s.state = NoVec \/ s.variance = NoVec THEN FALSE
    ELSE FGt(mahal_sq(s, measurement),
             FMul(s.outlier_threshold, s.outlier_threshold))

\* alpha * a + (1 - alpha) * b on arrays
Blend(alpha, a, b) == VAdd(VScale(alpha, a), VScale(FSub(Num(1), alpha), b))

\* an update() whose velocity follows every accepted measurement, whatever
\* its timestamp
ExpSmoother_update_any_time(s, measurement, measurement_variance, timestamp) ==
    IF s.state = NoVec
    THEN [s EXCEPT !.state = measurement,
                   !.variance = VFull(s.initial_variance),
                   !.last_time = timestamp]
    ELSE IF is_outlier(s, measurement)
    THEN [s EXCEPT !.variance = VScale(Frac(3, 2), s.variance)]
    ELSE LET dt == Num(timestamp - s.last_time)
             new_velocity == VOver(VSub(measurement, s.state), dt)
         IN  [s EXCEPT
                !.velocity = Blend(s.alpha, new_velocity, s.velocity),
                !.state = Blend(s.alpha, measurement, s.state),
                !.variance = Blend(s.alpha, VFull(measurement_variance), s.variance),
                !.last_time = timestamp]

\* ExpSmoother.update: the instance after the call
ExpSmoother_update(s, measurement, measurement_variance, timestamp) ==
    IF s.state = NoVec
    THEN [s EXCEPT !.state = measurement,
                   !.variance = VFull(s.initial_variance),
                   !.last_time = timestamp]
    ELSE IF is_outlier(s, measurement)
    THEN [s EXCEPT !.variance = VScale(Frac(3, 2), s.variance)]
    ELSE LET dt == Num(timestamp - s.last_time)
             new_velocity == VOver(VSub(measurement, s.state), dt)
         IN  [s EXCEPT
                !.velocity = IF s.last_time # NoTime /\ timestamp > s.last_time
                             THEN Blend(s.alpha, new_velocity, s.velocity)
                             ELSE s.velocity,
                !.state = Blend(s.alpha, measurement, s.state),
                !.variance = Blend(s.alpha, VFull(measurement_variance), s.variance),
                !.last_time = timestamp]

\* the FilteredPose update() returns: copies of the instance's arrays
FilteredPose(s, timestamp) ==
    [position |-> s.state, variance |-> s.variance, velocity |-> s.velocity,
     is_valid |-> TRUE, timestamp |-> timestamp]

\* a reset that leaves the velocity estimate in place
ExpSmoother_reset_keeps_velocity(s) ==
    [s EXCEPT !.state = NoVec, !.variance = NoVec, !.last_time = NoTime]

\* ExpSmoother.reset
ExpSmoother_reset(s) ==
    [s EXCEPT !.state = NoVec, !.variance = NoVec, !.last_time = NoTime,
              !.velocity = Vec(0, 0, 0)]

-----------------------------------------------------------------------------
(* KalmanFilter3D *)

(* _P, _F, _Q, _R and the gain K never see a measurement: they start as       *)
(* multiples of the identity coupled only position-to-velocity of the same    *)
(* axis, and every product keeps that shape, the same for the three axes.     *)
(* _P is therefore held as its block for one axis: xx and vv its variances,   *)
(* xv and vx the two covariances. The state _x does see the measurements, so  *)
(* its products are computed with the whole matrices, zero entries included.  *)

\* the constructor arguments the filter is built with: whole numbers, which
\* keep the fractions of the covariance short
DefaultKalmanConfig ==
    [process_noise |-> Num(1), measurement_noise |-> Num(1), dt |-> Num(1)]

\* dt=None
NoDt == [k |-> "none", n |-> 0, d |-> 1]

\* the dt arguments update() is given: none, or twice the constructor's
KalmanDts == {NoDt, Num(2)}

DefaultKalmanArgs == [measurement |-> Vec(0, 0, 0), dt |-> NoDt]

\* np.eye(6) * 1.0, as the block of one axis
IdentityBlock == [xx |-> Num(1), xv |-> Num(0), vx |-> Num(0), vv |-> Num(1)]

States == 1 .. 6

\* KalmanFilter3D.__init__
NewKalman(cfg) ==
    [dt |-> cfg.dt, F_dt |-> cfg.dt, Q |-> cfg.process_noise,
     R |-> cfg.measurement_noise, x |-> [i \in States |-> Num(0)],
     P |-> IdentityBlock, initialized |-> FALSE]

\* _F: the identity with dt at [0, 3], [1, 4] and [2, 5]
Fmat(dt) ==
    [i \in States |-> [j \in States |->
        IF i = j THEN Num(1) ELSE IF j = i + 3 THEN dt ELSE Num(0)]]

\* _H
Hmat == [i \in Axes |-> [j \in States |-> IF i = j THEN Num(1) ELSE Num(0)]]

\* K = P H^T inv(S): k1 on the position rows and k2 on the velocity rows
Kmat(k1, k2) ==
    [i \in States |-> [j \in Axes |->
        IF i = j THEN k1 ELSE IF i = j + 3 THEN k2 ELSE Num(0)]]

\* row . x over the first n entries
RECURSIVE Dot(_, _, _)
Dot(row, x, n) ==
    IF n = 0 THEN Num(0) ELSE FAdd(Dot(row, x, n - 1), FMul(row[n], x[n]))

\* A @ x for a matrix of the given shape
MatVec(A, x, rows, cols) == [i \in 1 .. rows |-> Dot(A[i], x, cols)]

\* F P F^T + Q on the block of one axis
predict_P(P, dt, q) ==
    LET a == FAdd(P.xx, FMul(dt, P.vx))
        b == FAdd(P.xv, FMul(dt, P.vv))
    IN  [xx |-> FAdd(FAdd(a, FMul(b, dt)), q),
         xv |-> b,
         vx |-> FAdd(P.vx, FMul(P.vv, dt)),
         vv |-> FAdd(P.vv, q)]

\* (I - K H) P on the block of one axis
update_P(P, k1, k2) ==
    [xx |-> FMul(FSub(Num(1), k1), P.xx),
     xv |-> FMul(FSub(Num(1), k1), P.xv),
     vx |-> FSub(P.vx, FMul(k2, P.xx)),
     vv |-> FSub(P.vv, FMul(k2, P.xv))]

\* KalmanFilter3D.update: the instance after the call
KalmanFilter3D_update(s, measurement, dt) ==
    IF ~s.initialized
    THEN [s EXCEPT !.x = [i \in States |-> IF i <= 3 THEN measurement[i] ELSE s.x[i]],
                   !.initialized = TRUE]
    ELSE LET s1 == IF dt # NoDt /\ dt # s.dt
                   THEN [s EXCEPT !.dt = dt, !.F_dt = dt]
                   ELSE s
             x_pred == MatVec(Fmat(s1.F_dt), s1.x, 6, 6)
             P_pred == predict_P(s1.P, s1.F_dt, s1.Q)
             Hx == MatVec(Hmat, x_pred, 3, 6)
             y == [i \in Axes |-> FSub(measurement[i], Hx[i])]
             S == FAdd(P_pred.xx, s1.R)
             k1 == FDiv(P_pred.xx, S)
             k2 == FDiv(P_pred.vx, S)
             Ky == MatVec(Kmat(k1, k2), y, 6, 3)
         IN  [s1 EXCEPT !.x = [i \in States |-> FAdd(x_pred[i], Ky[i])],
                        !.P = update_P(P_pred, k1, k2)]

\* the FilteredPose KalmanFilter3D.update returns
KalmanPose(s) ==
    [position |-> [i \in Axes |-> s.x[i]], variance |-> VFull(s.P.xx),
     velocity |-> [i \in Axes |-> s.x[i + 3]], is_valid |-> TRUE,
     timestamp |-> 0]

\* KalmanFilter3D.reset
KalmanFilter3D_reset(s) ==
    [s EXCEPT !.x = [i \in States |-> Num(0)], !.P = IdentityBlock,
              !.initialized = FALSE]

-----------------------------------------------------------------------------
(* RateLimiter *)

\* the threads that share one RateLimiter: a publisher and a heartbeat sender
Threads == {1, 2}

\* _interval_s = 1.0 / rate_hz, in ticks of the monotonic clock
interval_s == 2

\* the larger of two clock values
Later(a, b) == IF a > b THEN a ELSE b

\* should_run() by a caller that is alone: what it returns and the _last_time
\* it leaves, current_time being the clock value it read
should_run(last_time, current_time) ==
    IF current_time - last_time >= interval_s
    THEN [ret |-> TRUE, last_time |-> current_time]
    ELSE [ret |-> FALSE, last_time |-> last_time]

\* time_until_next(): max(0.0, remaining), now being the clock value it read
time_until_next(last_time, now) ==
    LET elapsed == now - last_time
        remaining == interval_s - elapsed
    IN  IF remaining > 0 THEN remaining ELSE 0

\* reset(): the _last_time it leaves
RateLimiter_reset == 0

-----------------------------------------------------------------------------
(* LandingTargetPublisher *)

\* publish() that counts every send it attempts
publish_counts_attempts(msg_count, last_time, now, force, success) ==
    LET limiter == IF force THEN [ret |-> FALSE, last_time |-> last_time]
                   ELSE should_run(last_time, now)
    IN  IF ~force /\ ~limiter.ret
        THEN [msg_count |-> msg_count, last_time |-> limiter.last_time,
              sent |-> FALSE, granted |-> FALSE, ret |-> FALSE]
        ELSE [msg_count |-> msg_count + 1,
              last_time |-> limiter.last_time,
              sent |-> TRUE, granted |-> ~force, ret |-> success]

\* publish(data, force): `not force and not should_run()` calls should_run()
\* only when force is False; success is what send_landing_target returns
publish(msg_count, last_time, now, force, success) ==
    LET limiter == IF force THEN [ret |-> FALSE, last_time |-> last_time]
                   ELSE should_run(last_time, now)
    IN  IF ~force /\ ~limiter.ret
        THEN [msg_count |-> msg_count, last_time |-> limiter.last_time,
              sent |-> FALSE, granted |-> FALSE, ret |-> FALSE]
        ELSE [msg_count |-> IF success THEN msg_count + 1 ELSE msg_count,
              last_time |-> limiter.last_time,
              sent |-> TRUE, granted |-> ~force, ret |-> success]

-----------------------------------------------------------------------------
(* GuidanceController; offsets in centimetres, rates in cm/s, as float64 *)

\* GuidanceController(lateral_gain=0.5, descent_rate, alignment_threshold_m=0.1)
NewController(descent_rate) ==
    [lateral_gain |-> Frac(1, 2), descent_rate |-> Num(descent_rate),
     alignment_threshold |-> 10]

\* lateral_error > alignment_threshold for whole offsets, the square root
\* replaced by a comparison of squares
Unaligned(c, target_x, target_y) ==
    target_x * target_x + target_y * target_y
        > c.alignment_threshold * c.alignment_threshold

GuidanceSetpoint(vx, vy, vz, yaw_rate) ==
    [vx |-> vx, vy |-> vy, vz |-> vz, yaw_rate |-> yaw_rate]

\* compute_setpoint(); confidence is a float64
compute_setpoint(c, target_x, target_y, target_z, current_altitude, confidence) ==
    LET gain == FMul(c.lateral_gain, confidence)
        vx == FMul(FNeg(gain), Num(target_x))
        vy == FMul(FNeg(gain), Num(target_y))
        vz == IF Unaligned(c, target_x, target_y)
              THEN FMul(c.descent_rate, Frac(3, 10))
              ELSE FMul(c.descent_rate, confidence)
    IN  GuidanceSetpoint(vx, vy, vz, Num(0))

\* target offsets (x, y) beyond the alignment threshold and within it, the
\* threshold itself included
FarOffsets == {<<8, 8>>, <<0, 11>>, <<-30, 0>>, <<100, -100>>}
NearOffsets == {<<0, 0>>, <<6, 8>>, <<-10, 0>>, <<3, -4>>}

\* confidences in [0, 1] and base descent rates >= 0 the calls are made with
Confidences == {Num(0), Frac(1, 5), Frac(3, 10), Frac(1, 2), Num(1)}
DescentRates == {0, 30}

GuidanceArgs ==
    [descent_rate : DescentRates, confidence : Confidences,
     far : FarOffsets, near : NearOffsets]

DefaultGuidanceArgs ==
    [descent_rate |-> 30, confidence |-> Num(1), far |-> <<8, 8>>,
     near |-> <<0, 0>>]

-----------------------------------------------------------------------------
(* HeartbeatMonitor *)

\* the threads that may run _monitor_loop; one that has ended may be started
\* anew
Loops == {1, 2}

\* self._thread = None
NoThread == 0

\* the constructor's timeout_s and 1.0 / send_rate_hz, in seconds
timeout_s == 1
send_interval_s == 1

\* the timeout of self._thread.join in stop()
join_timeout_s == 2

\* time.time() when the monitor is constructed, _last_send_time = 0.0 lying
\* far in the past
WallStart == 2

\* what transport.recv(blocking=False) returns: None, a HEARTBEAT or a message
\* of another type
Messages == {"None", "HEARTBEAT", "ATTITUDE"}

\* HeartbeatMonitor.__init__
NewMonitor ==
    [connected |-> FALSE, last_recv_time |-> NoTime, last_send_time |-> 0,
     running |-> FALSE, thread |-> NoThread]

\* _check_heartbeat up to the "Check timeout" comment, now being time.time()
receive_heartbeat(h, msg, now) ==
    IF msg = "HEARTBEAT"
    THEN [h EXCEPT !.last_recv_time = now, !.connected = TRUE]
    ELSE h

\* the timeout test with >= in place of >
check_timeout_ge(h, now) ==
    IF h.last_recv_time # NoTime /\ now - h.last_recv_time >= timeout_s
       /\ h.connected
    THEN [h EXCEPT !.connected = FALSE]
    ELSE h

\* _check_heartbeat from the "Check timeout" comment on
check_timeout(h, now) ==
    IF h.last_recv_time # NoTime /\ now - h.last_recv_time > timeout_s
       /\ h.connected
    THEN [h EXCEPT !.connected = FALSE]
    ELSE h

\* _send_heartbeat: whether it sends
sends_heartbeat(h, now) == now - h.last_send_time >= send_interval_s

\* _send_heartbeat: the instance it leaves
send_heartbeat(h, now) ==
    IF sends_heartbeat(h, now) THEN [h EXCEPT !.last_send_time = now] ELSE h

\* a thread that is inside _monitor_loop
Looping(l) == hb_loop[l] \in {"test", "recv", "check", "send"}

-----------------------------------------------------------------------------
(* BurstLimiter *)

\* the burst argument of the constructor
burst == 2

\* BurstLimiter(rate_hz, burst) constructed when the clock reads now
NewBurstLimiter(now) == [tokens |-> Num(burst), last_time |-> now]

\* _regenerate_tokens without the cap at burst
regenerate_tokens_uncapped(b, current) ==
    LET elapsed == current - b.last_time
        tokens_to_add == FDiv(Num(elapsed), Num(interval_s))
    IN  [tokens |-> FAdd(b.tokens, tokens_to_add), last_time |-> current]

\* _regenerate_tokens(), current being the clock value it read; min() returns
\* its first argument unless the second is smaller
regenerate_tokens(b, current) ==
    LET elapsed == current - b.last_time
        tokens_to_add == FDiv(Num(elapsed), Num(interval_s))
        sum == FAdd(b.tokens, tokens_to_add)
    IN  [tokens |-> IF FGt(Num(burst), sum) THEN sum ELSE Num(burst),
         last_time |-> current]

\* should_run(): the instance it leaves and what it returns
BurstLimiter_should_run(b, current) ==
    LET r == regenerate_tokens(b, current)
    IN  IF ~FGt(Num(1), r.tokens)
        THEN [limiter |-> [r EXCEPT !.tokens = FSub(r.tokens, Num(1))], ret |-> TRUE]
        ELSE [limiter |-> r, ret |-> FALSE]

-----------------------------------------------------------------------------
(* History of the input sequence, kept beside the instance *)

\* links up, no abort_command, no human_present: the tick reaches the handler
Nominal(in) ==
    /\ in.mavlink_connected /\ in.camera_connected
    /\ ~in.abort_command /\ ~in.human_present

\* a tick taken in Search that qualifies for the consecutive-frame count
Qualifies(f, in) ==
    /\ f.state = "SEARCH" /\ Nominal(in)
    /\ in.target_visible /\ in.target_confidence >= acquire_confidence

NextStreak(f, in) ==
    IF Qualifies(f, in)
    THEN IF search_streak < consecutive_frames_for_acquire + 1
         THEN search_streak + 1 ELSE search_streak
    ELSE 0

NextLostSince(in) ==
    IF in.target_visible THEN NoTime
    ELSE IF lost_since = NoTime THEN in.timestamp ELSE lost_since

NextCleanLoss(f, in) ==
    IF in.target_visible THEN FALSE
    ELSE IF lost_since = NoTime THEN f.last_target_time = NoTime ELSE clean_loss

\* the inputs of a nominal landing: links up, no abort or human signal, armed,
\* target visible, landing zone good, variance and lateral-error guards met
HeldNominal(in) ==
    /\ Nominal(in) /\ in.arm_command /\ in.target_visible
    /\ in.variance < max_variance
    /\ in.lateral_error_m <= align_error_m
    /\ in.landability_score >= abort_landability

\* marks of a nominal run: broken off, and ended by its first low-altitude tick
RunBroken == -1
RunLanded == -2

\* four stages take the run from Init to Descend
StagesToDescend == 4

NextNominalRun(in) ==
    IF nominal_run < 0 \/ ~HeldNominal(in) THEN RunBroken
    ELSE IF in.altitude_m > touchdown_altitude_m
         THEN IF nominal_run < MaxRun THEN nominal_run + 1 ELSE nominal_run
    ELSE IF nominal_run >= StagesToDescend THEN RunLanded
    ELSE RunBroken

\* the gates of a landing: a tick taken in Acquire with the target visible
\* and variance < max_variance, then a later tick taken in Align with the
\* target visible and lateral_error_m <= align_error_m
NextGates(f, in) ==
    IF gates_passed = 0 /\ f.state = "ACQUIRE"
       /\ in.target_visible /\ in.variance < max_variance
    THEN 1
    ELSE IF gates_passed = 1 /\ f.state = "ALIGN"
            /\ in.target_visible /\ in.lateral_error_m <= align_error_m
    THEN 2
    ELSE gates_passed

-----------------------------------------------------------------------------
(* Specification *)

\* a newly constructed LandingFSM, before any call
InitLanding ==
    /\ fsm = NewFSM
    /\ inputs = DefaultInputs
    /\ outputs = make_output(NewFSM)
    /\ last_op = "init"
    /\ search_streak = 0
    /\ lost_since = NoTime
    /\ clean_loss = FALSE
    /\ fresh = NewFSM
    /\ fresh_outputs = make_output(NewFSM)
    /\ replaying = FALSE
    /\ stale_at_reset = FALSE
    /\ nominal_run = 0
    /\ gates_passed = 0

\* a SafetySupervisor constructed at clock 0, before any call
InitSupervisor ==
    /\ sup = NewSupervisor(0)
    /\ clock = 0
    /\ check_args = DefaultCheckArgs
    /\ status = SafetyStatus(NewSupervisor(0))
    /\ sup_op = "init"
    /\ perception_seen_at = 0
    /\ mavlink_seen_at = 0
    /\ prior_unsafe = FALSE
    /\ clamp_args = DefaultClampArgs
    /\ clamp_result = <<0, 0, 0>>
    /\ clamp_op = "init"

\* a second SafetySupervisor constructed at clock 0
InitTwin ==
    /\ twin = NewSupervisor(0)
    /\ twin_clock = 0
    /\ twin_status = SafetyStatus(NewSupervisor(0))
    /\ twin_altitude = DefaultCheckArgs.altitude

\* an ExpSmoother constructed with cfg, before any call
InitSmootherWith(cfg) ==
    /\ sm = NewSmoother(cfg)
    /\ sm_before = NewSmoother(cfg)
    /\ sm_args = DefaultUpdateArgs
    /\ sm_pose = FilteredPose(NewSmoother(cfg), 0)
    /\ sm_op = "init"
    /\ sm_calls = 0

\* a KalmanFilter3D constructed with DefaultKalmanConfig, before any call
InitKalman ==
    /\ kf = NewKalman(DefaultKalmanConfig)
    /\ kf_before = NewKalman(DefaultKalmanConfig)
    /\ kf_args = DefaultKalmanArgs
    /\ kf_pose = KalmanPose(NewKalman(DefaultKalmanConfig))
    /\ kf_op = "init"
    /\ kf_ctor_dt = DefaultKalmanConfig.dt

\* a RateLimiter constructed with the clock at 0, no thread in a call
InitLimiter ==
    /\ rl_last_time = 0
    /\ rl_lock = 0
    /\ rl_pc = [t \in Threads |-> "idle"]
    /\ rl_current = [t \in Threads |-> 0]
    /\ rl_wake = [t \in Threads |-> 0]
    /\ mono = 0
    /\ rl_grant = NoTime
    /\ rl_prev_grant = NoTime
    /\ rl_peak = 0

\* no call made yet by the single caller
InitCalls ==
    /\ rq_op = "init"
    /\ rq_ret = FALSE
    /\ rq_wait = 0
    /\ rq_before = 0
    /\ rq_at = 0
    /\ rq_fresh = TRUE
    /\ rq_was_fresh = TRUE

\* a BurstLimiter constructed with the clock at 0, before any call
InitBurst ==
    /\ bl = NewBurstLimiter(0)
    /\ bl_before = NewBurstLimiter(0)
    /\ bl_op = "init"
    /\ bl_ret = FALSE
    /\ bl_run = 0

\* a LandingTargetPublisher newly constructed, before any call
InitPublisher ==
    /\ pub_msg_count = 0
    /\ pub_op = "init"
    /\ pub_force = FALSE
    /\ pub_ret = FALSE
    /\ pub_sent = FALSE
    /\ pub_at = 0
    /\ pub_limiter_before = 0
    /\ pub_true_count = 0
    /\ pub_grant_at = NoTime
    /\ pub_reset_after = FALSE
    /\ pub_prev_grant_at = NoTime
    /\ pub_prev_reset = FALSE

\* a HeartbeatMonitor newly constructed, not started
InitMonitor ==
    /\ hb = NewMonitor
    /\ hb_loop = [l \in Loops |-> "unborn"]
    /\ hb_ctl = "idle"
    /\ hb_join_at = WallStart
    /\ hb_now = WallStart
    /\ hb_op = "init"
    /\ hb_msg = "None"
    /\ hb_before = NewMonitor
    /\ hb_made = FALSE
    /\ hb_stopped = FALSE
    /\ hb_late = FALSE

\* no compute_setpoint() call made yet
InitGuidance ==
    /\ gd_args = DefaultGuidanceArgs
    /\ gd_far = GuidanceSetpoint(Num(0), Num(0), Num(0), Num(0))
    /\ gd_near = GuidanceSetpoint(Num(0), Num(0), Num(0), Num(0))
    /\ gd_op = "init"

\* every component but the smoother, newly constructed
InitExceptSmoother ==
    /\ InitLanding
    /\ InitSupervisor
    /\ InitTwin
    /\ InitKalman
    /\ InitLimiter
    /\ InitCalls
    /\ InitBurst
    /\ InitPublisher
    /\ InitMonitor
    /\ InitGuidance

Init ==
    /\ InitExceptSmoother
    /\ InitSmootherWith(DefaultSmootherConfig)

\* the control loop calls fsm.tick(snapshot); timestamps never decrease
Tick ==
    /\ ~replaying
    /\ \E ts \in inputs.timestamp .. MaxTime :
       \E snapshot \in InputSet :
          LET in == [snapshot EXCEPT !.timestamp = ts] IN
          /\ fsm' = tick(fsm, in)
          /\ inputs' = in
          /\ outputs' = make_output(fsm')
          /\ search_streak' = NextStreak(fsm, in)
          /\ lost_since' = NextLostSince(in)
          /\ clean_loss' = NextCleanLoss(fsm, in)
          /\ nominal_run' = NextNominalRun(in)
          /\ gates_passed' = NextGates(fsm, in)
    /\ last_op' = "tick"
    /\ UNCHANGED <<fresh, fresh_outputs, replaying, stale_at_reset>>
    /\ UNCHANGED <<supvars, latervars>>

\* the control loop calls fsm.reset()
Reset ==
    /\ fsm' = reset(fsm)
    /\ last_op' = "reset"
    /\ search_streak' = 0
    /\ lost_since' = NoTime
    /\ clean_loss' = FALSE
    /\ nominal_run' = 0
    /\ gates_passed' = 0
    /\ UNCHANGED <<inputs, outputs, fresh, fresh_outputs, replaying, stale_at_reset>>
    /\ UNCHANGED <<supvars, latervars>>

Next == Tick \/ Reset

Spec == Init /\ [][Next]_vars

-----------------------------------------------------------------------------
(* Replay: fsm.reset() beside a new LandingFSM(), both fed the same ticks *)

\* fsm.reset() is called and, beside it, a new instance is constructed
ResetReplay ==
    /\ fsm' = reset(fsm)
    /\ fresh' = NewFSM
    /\ fresh_outputs' = make_output(NewFSM)
    /\ replaying' = TRUE
    /\ stale_at_reset' = (\/ fsm.last_target_time # NoTime
                          \/ fsm.consecutive_detections # 0
                          \/ fsm.abort_reason # "None")
    /\ last_op' = "reset"
    /\ search_streak' = 0
    /\ lost_since' = NoTime
    /\ clean_loss' = FALSE
    /\ nominal_run' = 0
    /\ gates_passed' = 0
    /\ UNCHANGED <<inputs, outputs>>
    /\ UNCHANGED <<supvars, latervars>>

\* the same snapshot is passed to fsm.tick and to fresh.tick
TickReplay ==
    /\ replaying
    /\ \E ts \in inputs.timestamp .. MaxTime :
       \E snapshot \in InputSet :
          LET in == [snapshot EXCEPT !.timestamp = ts] IN
          /\ fsm' = tick(fsm, in)
          /\ fresh' = tick(fresh, in)
          /\ inputs' = in
          /\ outputs' = make_output(fsm')
          /\ fresh_outputs' = make_output(fresh')
          /\ search_streak' = NextStreak(fsm, in)
          /\ lost_since' = NextLostSince(in)
          /\ clean_loss' = NextCleanLoss(fsm, in)
          /\ nominal_run' = NextNominalRun(in)
          /\ gates_passed' = NextGates(fsm, in)
    /\ last_op' = "tick"
    /\ UNCHANGED <<replaying, stale_at_reset>>
    /\ UNCHANGED <<supvars, latervars>>

NextReplay == Tick \/ ResetReplay \/ TickReplay

SpecReplay == Init /\ [][NextReplay]_vars

-----------------------------------------------------------------------------
(* The control loop's calls of the SafetySupervisor; the clock never runs back *)

\* supervisor.check(...) is called and reads the clock once
\* what sup.check(a) does when its time.time() returns now
CheckCall(a, now) ==
    /\ sup' = check(sup, a, now)
    /\ clock' = now
    /\ check_args' = a
    /\ status' = SafetyStatus(sup')
    /\ perception_seen_at' = IF a.perception_active THEN now
                             ELSE perception_seen_at
    /\ mavlink_seen_at' = IF a.mavlink_active THEN now ELSE mavlink_seen_at
    /\ sup_op' = "check"
    /\ prior_unsafe' = (sup_op = "check" /\ ~status.is_safe)

Check ==
    /\ \E now \in clock .. MaxClock :
       \E a \in CheckArgs :
          CheckCall(a, now)
    /\ UNCHANGED <<fsmvars, latervars>>

\* supervisor.reset() is called and reads the clock twice
SupervisorReset ==
    /\ \E t1 \in clock .. MaxClock :
       \E t2 \in t1 .. MaxClock :
          /\ sup' = supervisor_reset(sup, t1, t2)
          /\ clock' = t2
          /\ perception_seen_at' = t1
          /\ mavlink_seen_at' = t2
    /\ sup_op' = "reset"
    /\ prior_unsafe' = FALSE
    /\ UNCHANGED <<check_args, status>>
    /\ UNCHANGED <<fsmvars, latervars>>

NextSafety == Check \/ SupervisorReset

SpecSafety == Init /\ [][NextSafety]_vars

-----------------------------------------------------------------------------
(* The guidance loop's calls of SafetySupervisor.clamp_velocity *)

ClampVelocity ==
    /\ \E a \in ClampArgs :
          /\ clamp_args' = a
          /\ clamp_result' = clamp_velocity(a.lateral[1], a.lateral[2], a.vz,
                                            a.confidence)
    /\ clamp_op' = "clamp"
    /\ UNCHANGED exceptclamp

NextClamp == ClampVelocity

SpecClamp == Init /\ [][NextClamp]_vars

-----------------------------------------------------------------------------
(* Two supervisors given the same check() calls; each reads time.time() itself *)

\* the arguments both supervisors are called with: the watchdog flags, every
\* other argument at its default
TwinArgs ==
    {[DefaultCheckArgs EXCEPT !.perception_active = p, !.mavlink_active = m] :
        p \in BOOLEAN, m \in BOOLEAN}

\* sup.check(a) and twin.check(a): the same arguments, and for each call the
\* value its own time.time() returns
CheckTwin ==
    /\ \E a \in TwinArgs :
       \E now \in clock .. MaxClock :
       \E twin_now \in twin_clock .. MaxClock :
          /\ CheckCall(a, now)
          /\ twin' = check(twin, a, twin_now)
          /\ twin_clock' = twin_now
          /\ twin_status' = SafetyStatus(twin')
          /\ twin_altitude' = a.altitude
    /\ UNCHANGED excepttwin

NextTwin == CheckTwin

SpecTwin == Init /\ [][NextTwin]_vars

-----------------------------------------------------------------------------
(* Two supervisors called at the same clock value with arguments that differ *)
(* in altitude only                                                          *)

\* the altitudes the second supervisor is called with, in centimetres: on the
\* ground, just below min_safe_altitude_m, at it, and the default
Altitudes == {0, min_safe_altitude_m - 1, min_safe_altitude_m, 10000}

\* the arguments of the first supervisor: the default altitude, every
\* combination of the flags, the descent speed at and just past its limit
AltitudeArgs ==
    [perception_active : BOOLEAN, mavlink_active : BOOLEAN,
     lateral_speed : {150}, descent_speed : {70, 71},
     altitude : {10000}, landability_score : {20},
     human_present : BOOLEAN]

\* sup.check(a) and twin.check(a with another altitude), time.time() returning
\* the same value to both
CheckAltitudes ==
    /\ \E a \in AltitudeArgs :
       \E now \in clock .. MaxClock :
       \E alt \in Altitudes :
          /\ CheckCall(a, now)
          /\ twin' = check(twin, [a EXCEPT !.altitude = alt], now)
          /\ twin_clock' = now
          /\ twin_status' = SafetyStatus(twin')
          /\ twin_altitude' = alt
    /\ UNCHANGED excepttwin

NextAltitudes == CheckAltitudes

SpecAltitudes == Init /\ [][NextAltitudes]_vars

-----------------------------------------------------------------------------
(* The pose pipeline's calls of the ExpSmoother *)

\* sm.update(a.measurement, a.measurement_variance, a.timestamp)
SmootherCall(a) ==
    /\ sm' = ExpSmoother_update(sm, a.measurement, a.measurement_variance,
                                a.timestamp)
    /\ sm_args' = a
    /\ sm_pose' = FilteredPose(sm', a.timestamp)
    /\ sm_before' = sm
    /\ sm_op' = "update"

SmootherUpdate ==
    /\ sm_calls < MaxUpdates
    /\ \E m \in Measurements :
       \E x \in UpdateExtras :
          SmootherCall(UpdateArgs(m, x))
    /\ sm_calls' = sm_calls + 1
    /\ UNCHANGED exceptsm

SmootherReset ==
    /\ sm' = ExpSmoother_reset(sm)
    /\ sm_before' = sm
    /\ sm_op' = "reset"
    /\ UNCHANGED <<sm_args, sm_pose, sm_calls>>
    /\ UNCHANGED exceptsm

InitSmoother ==
    /\ InitExceptSmoother
    /\ \E cfg \in SmootherConfigs : InitSmootherWith(cfg)

NextSmoother == SmootherUpdate \/ SmootherReset

SpecSmoother == InitSmoother /\ [][NextSmoother]_vars

-----------------------------------------------------------------------------
(* Both filters given the same measurements *)

\* kf.update(a.measurement, a.dt)
KalmanCall(a) ==
    /\ kf' = KalmanFilter3D_update(kf, a.measurement, a.dt)
    /\ kf_args' = a
    /\ kf_pose' = KalmanPose(kf')
    /\ kf_before' = kf
    /\ kf_op' = "update"
    /\ UNCHANGED kf_ctor_dt

\* the measurements both filters are given: two positions, one with a NaN
\* component and one with an infinite component
FilterMeasurements ==
    {Vec(1, 1, 1), Vec(3, 1, 1), <<NaN, Num(1), Num(1)>>,
     <<PosInf, Num(1), Num(1)>>}

\* the same measurement goes to sm.update and to kf.update
FiltersUpdate ==
    /\ sm_calls < MaxUpdates
    /\ \E m \in FilterMeasurements :
       \E dt \in KalmanDts :
          /\ SmootherCall([DefaultUpdateArgs EXCEPT !.measurement = m,
                                                   !.timestamp = sm_calls])
          /\ KalmanCall([measurement |-> m, dt |-> dt])
    /\ sm_calls' = sm_calls + 1
    /\ UNCHANGED exceptfilters

\* sm.reset() and kf.reset()
FiltersReset ==
    /\ sm' = ExpSmoother_reset(sm)
    /\ sm_before' = sm
    /\ sm_op' = "reset"
    /\ kf' = KalmanFilter3D_reset(kf)
    /\ kf_before' = kf
    /\ kf_op' = "reset"
    /\ UNCHANGED <<sm_args, sm_pose, sm_calls, kf_args, kf_pose, kf_ctor_dt>>
    /\ UNCHANGED exceptfilters

NextFilters == FiltersUpdate \/ FiltersReset

SpecFilters == Init /\ [][NextFilters]_vars

-----------------------------------------------------------------------------
(* Properties of LandingFSM *)

LinkDown(in) == ~in.mavlink_connected \/ ~in.camera_connected

Terminal == {"TOUCHDOWN", "ABORT", "FAILSAFE"}

HumanExempt == {"INIT", "IDLE", "ABORT", "FAILSAFE"}

\* the tick ended in state s with abort reason r, in the instance and in the output
EndsIn(s, r) ==
    /\ fsm.state = s /\ fsm.abort_reason = r
    /\ outputs.state = s /\ outputs.abort_reason = r

C3_TerminalStable ==
    (last_op = "tick" /\ fsm.prev_state \in Terminal) => fsm.state = fsm.prev_state

HandlerTick(s) ==
    last_op = "tick" /\ fsm.prev_state = s /\ Nominal(inputs)

\* C5: a handler tick in Search ends in Acquire exactly when it completes
\* consecutive_frames_for_acquire consecutive qualifying ticks (target visible,
\* confidence >= acquire_confidence), and stays in Search otherwise; a tick
\* that does not qualify leaves the count at 0.
C5_AcquireAfterConsecutiveFrames ==
    HandlerTick("SEARCH") =>
        /\ fsm.state = "ACQUIRE" <=> search_streak = consecutive_frames_for_acquire
        /\ fsm.state # "ACQUIRE" => fsm.state = "SEARCH"
        /\ search_streak = 0 => fsm.consecutive_detections = 0
        /\ outputs.state = fsm.state

C5_Witness ==
    /\ HandlerTick("SEARCH")
    /\ search_streak = consecutive_frames_for_acquire
    /\ fsm.state = "ACQUIRE"

\* C6: a handler tick in Align or Descend moves to Search only when the
\* target has been continuously out of view for more than
\* target_lost_timeout_s, measured from the first tick of the current loss.
C6_TimeoutFromCurrentLoss ==
    (/\ last_op = "tick" /\ fsm.prev_state \in {"ALIGN", "DESCEND"}
     /\ Nominal(inputs) /\ fsm.state = "SEARCH")
        => /\ lost_since # NoTime
           /\ inputs.timestamp - lost_since > target_lost_timeout_s

\* C7: in Align or Descend, during a loss that began with no timer running,
\* a handler tick without target holds the state (timer at the first lost
\* tick) while the timestamp is within target_lost_timeout_s of the first lost
\* tick, and moves to Search with the timer cleared on the first tick beyond it.
C7_HeldUntilTimeout ==
    (/\ last_op = "tick" /\ fsm.prev_state \in {"ALIGN", "DESCEND"}
     /\ Nominal(inputs) /\ ~inputs.target_visible /\ clean_loss)
        => IF inputs.timestamp - lost_since > target_lost_timeout_s
           THEN fsm.state = "SEARCH" /\ fsm.last_target_time = NoTime
           ELSE fsm.state = fsm.prev_state /\ fsm.last_target_time = lost_since

C7_Witness ==
    /\ last_op = "tick" /\ fsm.prev_state = "DESCEND"
    /\ Nominal(inputs) /\ ~inputs.target_visible /\ clean_loss
    /\ lost_since = 0 /\ inputs.timestamp = 3
    /\ fsm.state = "SEARCH" /\ fsm.last_target_time = NoTime

\* C8: once abort_reason is set, every later tick leaves it, and reports it,
\* unchanged.
C8_AbortReasonPersists ==
    [][(fsm.abort_reason # "None" /\ last_op' = "tick")
         => (fsm'.abort_reason = fsm.abort_reason
             /\ outputs'.abort_reason = fsm.abort_reason)]_vars

\* C9: after reset(), every tick returns the output a newly constructed
\* instance returns for the same snapshots, and leaves the same fields.
C9_ResetEqualsFresh ==
    (replaying /\ last_op = "tick") => (outputs = fresh_outputs /\ fsm = fresh)

C9_Witness ==
    /\ replaying /\ stale_at_reset /\ last_op = "tick"
    /\ fsm.prev_state = "ALIGN" /\ ~inputs.target_visible /\ Nominal(inputs)
    /\ outputs = fresh_outputs
    /\ outputs.state = "ALIGN"

\* C10: a handler tick in Acquire, Align or Descend with the target visible
\* and landability_score < abort_landability ends in Abort with reason
\* "low_landability", also when the progress guard of that state holds.
C10_LowLandabilityAborts ==
    (/\ last_op = "tick" /\ fsm.prev_state \in {"ACQUIRE", "ALIGN", "DESCEND"}
     /\ Nominal(inputs) /\ inputs.target_visible
     /\ inputs.landability_score < abort_landability)
        => EndsIn("ABORT", "low_landability")

C10_Witness ==
    /\ HandlerTick("DESCEND") /\ inputs.target_visible
    /\ inputs.landability_score < abort_landability
    /\ inputs.altitude_m <= touchdown_altitude_m
    /\ EndsIn("ABORT", "low_landability")

\* C11: every tick output is derived from the state after the tick:
\* publish_landing_target iff Acquire, Align or Descend; confidence_gain 0.5
\* in Search, 0.7 in Acquire, 1.0 elsewhere; state_changed iff the state after
\* the tick differs from the state before it.
C11_OutputDerivation ==
    [][last_op' = "tick" =>
        /\ outputs'.state = fsm'.state
        /\ outputs'.publish_landing_target
              = (fsm'.state \in {"ACQUIRE", "ALIGN", "DESCEND"})
        /\ outputs'.confidence_gain
              = (CASE fsm'.state = "SEARCH" -> 50
                   [] fsm'.state = "ACQUIRE" -> 70
                   [] OTHER -> 100)
        /\ outputs'.state_changed = (fsm'.state # fsm.state)]_vars

C11_Witness ==
    /\ last_op = "tick" /\ LinkDown(inputs)
    /\ fsm.prev_state = "FAILSAFE" /\ outputs.state = "FAILSAFE"
    /\ ~outputs.state_changed /\ ~outputs.publish_landing_target
    /\ outputs.confidence_gain = 100

\* C12: a tick in Idle with the links up and no abort_command moves to Acquire
\* when arm_command and target_visible are set (whatever the confidence), to
\* Search when arm_command is set and the target is not visible, and stays in
\* Idle without arm_command, human_present or not.
C12_IdleTransitions ==
    (/\ last_op = "tick" /\ fsm.prev_state = "IDLE"
     /\ ~LinkDown(inputs) /\ ~inputs.abort_command)
        => /\ outputs.state = fsm.state
           /\ fsm.state = (IF ~inputs.arm_command THEN "IDLE"
                           ELSE IF inputs.target_visible THEN "ACQUIRE"
                           ELSE "SEARCH")

C12_Witness ==
    /\ last_op = "tick" /\ fsm.prev_state = "IDLE" /\ Nominal(inputs)
    /\ inputs.arm_command /\ inputs.target_visible
    /\ inputs.target_confidence < acquire_confidence
    /\ fsm.state = "ACQUIRE"

C14_AcquireTransitions ==
    HandlerTick("ACQUIRE") =>
        /\ ~inputs.target_visible => fsm.state = "SEARCH"
        /\ (inputs.target_visible /\ inputs.landability_score >= abort_landability)
              => fsm.state = (IF inputs.variance < max_variance
                              THEN "ALIGN" ELSE "ACQUIRE")

C14_Witness ==
    /\ HandlerTick("ACQUIRE") /\ inputs.target_visible
    /\ inputs.landability_score >= abort_landability
    /\ inputs.variance = max_variance
    /\ fsm.state = "ACQUIRE"

\* C15: a handler tick in Align with the target visible and landability >=
\* abort_landability moves to Descend iff lateral_error_m <= align_error_m and
\* stays in Align otherwise, an infinite lateral_error_m included.
C15_AlignTransitions ==
    (/\ HandlerTick("ALIGN") /\ inputs.target_visible
     /\ inputs.landability_score >= abort_landability)
        => fsm.state = (IF inputs.lateral_error_m <= align_error_m
                        THEN "DESCEND" ELSE "ALIGN")

C15_Witness ==
    /\ HandlerTick("ALIGN") /\ inputs.target_visible
    /\ inputs.landability_score >= abort_landability
    /\ inputs.lateral_error_m = Inf
    /\ fsm.state = "ALIGN" /\ outputs.state = "ALIGN"

\* C16: a handler tick in Descend with the target visible and landability >=
\* abort_landability moves to Touchdown iff altitude_m <= touchdown_altitude_m
\* and stays in Descend otherwise; without target it never enters Touchdown.
C16_DescendTransitions ==
    HandlerTick("DESCEND") =>
        /\ (inputs.target_visible /\ inputs.landability_score >= abort_landability)
              => fsm.state = (IF inputs.altitude_m <= touchdown_altitude_m
                              THEN "TOUCHDOWN" ELSE "DESCEND")
        /\ ~inputs.target_visible => fsm.state # "TOUCHDOWN"

C16_Witness ==
    /\ HandlerTick("DESCEND") /\ ~inputs.target_visible
    /\ inputs.altitude_m <= touchdown_altitude_m
    /\ fsm.state = "DESCEND"

\* C17: from a new instance, with the nominal landing inputs held and the
\* altitude above touchdown_altitude_m, the states after the ticks are Idle,
\* Acquire, Align, Descend and then Descend; the first tick of the run with
\* altitude_m <= touchdown_altitude_m after that gives Touchdown.
C17_NominalRun ==
    /\ nominal_run = 1 => fsm.state = "IDLE"
    /\ nominal_run = 2 => fsm.state = "ACQUIRE"
    /\ nominal_run = 3 => fsm.state = "ALIGN"
    /\ nominal_run >= StagesToDescend => fsm.state = "DESCEND"
    /\ nominal_run = RunLanded => fsm.state = "TOUCHDOWN"
    /\ nominal_run > 0 => outputs.state = fsm.state

C17_Witness ==
    /\ nominal_run = RunLanded /\ last_op = "tick"
    /\ fsm.prev_state = "DESCEND" /\ outputs.state = "TOUCHDOWN"

-----------------------------------------------------------------------------
(* Properties of SafetySupervisor *)

Reported(tag) == tag \in Tags(status.violations)

\* C18: a check reports mavlink_timeout exactly when the clock is more than
\* mavlink_timeout_s past the latest check with mavlink_active (or the
\* construction/reset), never on a check that has mavlink_active itself; the
\* same for perception_active and perception_timeout with
\* perception_timeout_s; a reported timeout makes is_safe false.
C18_Watchdog ==
    sup_op = "check" =>
        /\ Reported("mavlink_timeout")
              <=> (clock - mavlink_seen_at > mavlink_timeout_s)
        /\ Reported("perception_timeout")
              <=> (clock - perception_seen_at > perception_timeout_s)
        /\ check_args.mavlink_active => ~Reported("mavlink_timeout")
        /\ check_args.perception_active => ~Reported("perception_timeout")
        /\ (Reported("mavlink_timeout") \/ Reported("perception_timeout"))
              => ~status.is_safe
        /\ status.last_mavlink_time = mavlink_seen_at
        /\ status.last_perception_time = perception_seen_at

C18_Witness ==
    /\ sup_op = "check" /\ ~check_args.mavlink_active
    /\ mavlink_seen_at = 0 /\ clock = 4
    /\ perception_seen_at = 1
    /\ Reported("mavlink_timeout") /\ Reported("perception_timeout")
    /\ ~status.is_safe

\* the tags whose condition holds for the most recent check
ExpectedTags ==
    {t \in {"perception_timeout"} : clock - perception_seen_at > perception_timeout_s}
    \cup {t \in {"mavlink_timeout"} : clock - mavlink_seen_at > mavlink_timeout_s}
    \cup {t \in {"lateral_speed_exceeded"} :
            check_args.lateral_speed > max_lateral_speed_mps}
    \cup {t \in {"descent_speed_exceeded"} :
            check_args.descent_speed > max_descent_speed_mps}
    \cup {t \in {"human_detected"} : check_args.human_present}
    \cup {t \in {"critical_landability"} :
            check_args.landability_score < critical_landability_score}

\* C19: the violations a check returns are exactly the tags whose condition
\* holds for that call, each once, whatever earlier calls reported, and
\* is_safe is true iff there are none.
C19_ViolationsRecomputed ==
    sup_op = "check" =>
        /\ Tags(status.violations) = ExpectedTags
        /\ Len(status.violations) = Cardinality(ExpectedTags)
        /\ status.is_safe <=> (ExpectedTags = {})
        /\ sup.violations = status.violations

C19_Witness ==
    /\ sup_op = "check" /\ prior_unsafe
    /\ status.is_safe /\ status.violations = <<>>

\* C20: should_abort() is true iff the most recent check reported at least
\* one of perception_timeout, mavlink_timeout, human_detected; it is false
\* before any check and after reset().
C20_ShouldAbort ==
    /\ sup_op = "check"
          => (should_abort(sup)
                <=> (\/ Reported("perception_timeout")
                     \/ Reported("mavlink_timeout")
                     \/ Reported("human_detected")))
    /\ sup_op \in {"init", "reset"} => ~should_abort(sup)

C20_Witness ==
    /\ sup_op = "check"
    /\ Tags(status.violations) = {"lateral_speed_exceeded",
                                  "descent_speed_exceeded", "critical_landability"}
    /\ ~should_abort(sup)

-----------------------------------------------------------------------------
(* Threads calling should_run() and wait_and_run() on one RateLimiter *)

\* a grant is made now: the histories move on
Granted ==
    /\ rl_grant' = mono
    /\ rl_prev_grant' = rl_grant

\* should_run: current_time = time.monotonic(), before the lock is taken
ShouldRunRead ==
    /\ \E t \in Threads :
          /\ rl_pc[t] = "idle"
          /\ rl_current' = [rl_current EXCEPT ![t] = mono]
          /\ rl_pc' = [rl_pc EXCEPT ![t] = "should_run"]
    /\ UNCHANGED <<rl_last_time, rl_lock, rl_wake, mono, rl_grant, rl_prev_grant,
                   rl_peak>>
    /\ UNCHANGED exceptrl

\* should_run: the body of `with self._lock`, the lock being free, and the
\* return that grants
ShouldRunGrant ==
    /\ \E t \in Threads :
          /\ rl_pc[t] = "should_run"
          /\ rl_lock = 0
          /\ rl_current[t] - rl_last_time >= interval_s
          /\ rl_last_time' = rl_current[t]
          /\ rl_peak' = Later(rl_peak, rl_current[t])
          /\ rl_pc' = [rl_pc EXCEPT ![t] = "idle"]
    /\ Granted
    /\ UNCHANGED <<rl_lock, rl_current, rl_wake, mono>>
    /\ UNCHANGED exceptrl

\* should_run: the body of `with self._lock`, and the return that refuses
ShouldRunRefuse ==
    /\ \E t \in Threads :
          /\ rl_pc[t] = "should_run"
          /\ rl_lock = 0
          /\ rl_current[t] - rl_last_time < interval_s
          /\ rl_pc' = [rl_pc EXCEPT ![t] = "idle"]
    /\ UNCHANGED <<rl_last_time, rl_lock, rl_current, rl_wake, mono, rl_grant,
                   rl_prev_grant, rl_peak>>
    /\ UNCHANGED exceptrl

\* wait_and_run: takes the lock, reads the clock and, called too early,
\* starts time.sleep(interval - elapsed) with the lock held
WaitAndRunEnter ==
    /\ \E t \in Threads :
          /\ rl_pc[t] = "idle"
          /\ rl_lock = 0
          /\ rl_lock' = t
          /\ rl_current' = [rl_current EXCEPT ![t] = mono]
          /\ IF mono - rl_last_time < interval_s
             THEN /\ rl_wake' = [rl_wake EXCEPT
                                   ![t] = mono + (interval_s - (mono - rl_last_time))]
                  /\ rl_pc' = [rl_pc EXCEPT ![t] = "sleeping"]
             ELSE /\ rl_wake' = rl_wake
                  /\ rl_pc' = [rl_pc EXCEPT ![t] = "awake"]
    /\ UNCHANGED <<rl_last_time, mono, rl_grant, rl_prev_grant, rl_peak>>
    /\ UNCHANGED exceptrl

\* wait_and_run: time.sleep() returns, no earlier than asked
WaitAndRunWake ==
    /\ \E t \in Threads :
          /\ rl_pc[t] = "sleeping"
          /\ mono >= rl_wake[t]
          /\ rl_pc' = [rl_pc EXCEPT ![t] = "awake"]
    /\ UNCHANGED <<rl_last_time, rl_lock, rl_current, rl_wake, mono, rl_grant,
                   rl_prev_grant, rl_peak>>
    /\ UNCHANGED exceptrl

\* wait_and_run: _last_time = time.monotonic(), the lock is released and the
\* call returns
WaitAndRunStamp ==
    /\ \E t \in Threads :
          /\ rl_pc[t] = "awake"
          /\ rl_lock = t
          /\ rl_pc' = [rl_pc EXCEPT ![t] = "idle"]
    /\ rl_last_time' = mono
    /\ rl_peak' = Later(rl_peak, mono)
    /\ rl_lock' = 0
    /\ Granted
    /\ UNCHANGED <<rl_current, rl_wake, mono>>
    /\ UNCHANGED exceptrl

\* the monotonic clock moves on
ClockTick ==
    /\ mono < MaxMono
    /\ mono' = mono + 1
    /\ UNCHANGED <<rl_last_time, rl_lock, rl_pc, rl_current, rl_wake, rl_grant,
                   rl_prev_grant, rl_peak>>
    /\ UNCHANGED exceptrl

NextLimiter ==
    \/ ShouldRunRead
    \/ ShouldRunGrant
    \/ ShouldRunRefuse
    \/ WaitAndRunEnter
    \/ WaitAndRunWake
    \/ WaitAndRunStamp
    \/ ClockTick

SpecLimiter == Init /\ [][NextLimiter]_vars

-----------------------------------------------------------------------------
(* One caller of should_run(), time_until_next() and reset() on a RateLimiter *)

\* the histories of the threaded calls, moved on by a call that is granted
\* or not
GrantHistory(granted) ==
    IF granted
    THEN /\ Granted
         /\ rl_peak' = Later(rl_peak, mono)
    ELSE UNCHANGED <<rl_grant, rl_prev_grant, rl_peak>>

\* should_run(), from the clock reading to the return
LimiterShouldRun ==
    /\ rl_lock = 0
    /\ rl_last_time' = should_run(rl_last_time, mono).last_time
    /\ rq_op' = "should_run"
    /\ rq_ret' = should_run(rl_last_time, mono).ret
    /\ rq_before' = rl_last_time
    /\ rq_at' = mono
    /\ rq_fresh' = FALSE
    /\ rq_was_fresh' = rq_fresh
    /\ GrantHistory(should_run(rl_last_time, mono).ret)
    /\ UNCHANGED <<rq_wait, rl_lock, rl_pc, rl_current, rl_wake, mono>>
    /\ UNCHANGED exceptcalls

\* time_until_next()
LimiterTimeUntilNext ==
    /\ rl_lock = 0
    /\ rq_op' = "time_until_next"
    /\ rq_wait' = time_until_next(rl_last_time, mono)
    /\ rq_before' = rl_last_time
    /\ rq_at' = mono
    /\ rq_was_fresh' = rq_fresh
    /\ UNCHANGED <<rq_ret, rq_fresh, rlvars>>
    /\ UNCHANGED exceptcalls

\* reset()
LimiterReset ==
    /\ rl_lock = 0
    /\ rl_last_time' = RateLimiter_reset
    /\ rq_op' = "reset"
    /\ rq_before' = rl_last_time
    /\ rq_at' = mono
    /\ rq_fresh' = TRUE
    /\ rq_was_fresh' = rq_fresh
    /\ UNCHANGED <<rq_ret, rq_wait, rl_lock, rl_pc, rl_current, rl_wake, mono,
                   rl_grant, rl_prev_grant, rl_peak>>
    /\ UNCHANGED exceptcalls

NextCalls ==
    \/ LimiterShouldRun
    \/ LimiterTimeUntilNext
    \/ LimiterReset
    \/ ClockTick

SpecCalls == Init /\ [][NextCalls]_vars

-----------------------------------------------------------------------------
(* Calls of BurstLimiter.should_run() as the clock moves on *)

BurstShouldRun ==
    /\ bl' = BurstLimiter_should_run(bl, mono).limiter
    /\ bl_before' = bl
    /\ bl_op' = "should_run"
    /\ bl_ret' = BurstLimiter_should_run(bl, mono).ret
    /\ bl_run' = IF regenerate_tokens(bl, mono).tokens = Num(burst) THEN 1
                 ELSE IF mono = bl.last_time /\ bl_run \in 1 .. burst
                      THEN bl_run + 1
                 ELSE 0
    /\ UNCHANGED exceptburst

NextBurst == BurstShouldRun \/ ClockTick

SpecBurst == Init /\ [][NextBurst]_vars

-----------------------------------------------------------------------------
(* Calls of LandingTargetPublisher, whose RateLimiter is the one above, as *)
(* the clock moves on; the transport sends or fails to                     *)

Publish ==
    /\ pub_msg_count < MaxSent
    /\ rl_lock = 0
    /\ \E force \in BOOLEAN, success \in BOOLEAN :
          LET r == publish(pub_msg_count, rl_last_time, mono, force, success)
          IN  /\ pub_msg_count' = r.msg_count
              /\ rl_last_time' = r.last_time
              /\ pub_force' = force
              /\ pub_ret' = r.ret
              /\ pub_sent' = r.sent
              /\ pub_true_count' = IF r.ret THEN pub_true_count + 1 ELSE pub_true_count
              /\ pub_grant_at' = IF r.granted THEN mono ELSE pub_grant_at
              /\ pub_reset_after' = IF r.granted THEN FALSE ELSE pub_reset_after
              /\ GrantHistory(r.granted)
    /\ pub_op' = "publish"
    /\ pub_at' = mono
    /\ pub_limiter_before' = rl_last_time
    /\ pub_prev_grant_at' = pub_grant_at
    /\ pub_prev_reset' = pub_reset_after
    /\ UNCHANGED <<rl_lock, rl_pc, rl_current, rl_wake, mono>>
    /\ UNCHANGED exceptpub

\* reset(): the count and the limiter
PublisherReset ==
    /\ rl_lock = 0
    /\ pub_msg_count' = 0
    /\ rl_last_time' = RateLimiter_reset
    /\ pub_op' = "reset"
    /\ pub_at' = mono
    /\ pub_limiter_before' = rl_last_time
    /\ pub_true_count' = 0
    /\ pub_reset_after' = TRUE
    /\ pub_prev_grant_at' = pub_grant_at
    /\ pub_prev_reset' = pub_reset_after
    /\ UNCHANGED <<pub_force, pub_ret, pub_sent, pub_grant_at>>
    /\ UNCHANGED <<rl_lock, rl_pc, rl_current, rl_wake, mono, rl_grant,
                   rl_prev_grant, rl_peak>>
    /\ UNCHANGED exceptpub

NextPublisher == Publish \/ PublisherReset \/ ClockTick

SpecPublisher == Init /\ [][NextPublisher]_vars

-----------------------------------------------------------------------------
(* HeartbeatMonitor: one thread calls start() and stop(), the threads started *)
(* run _monitor_loop, and the wall clock moves on                            *)

\* a step by the caller: what every such step records
CallerStep(op) ==
    /\ hb_op' = op
    /\ hb_before' = hb
    /\ UNCHANGED <<hb_now, hb_msg, hb_late>>
    /\ UNCHANGED excepthb

\* a step of a loop thread that leaves the instance as h
LoopStep(op, h, sent) ==
    /\ hb_op' = op
    /\ hb_before' = hb
    /\ hb' = h
    /\ hb_late' = (hb_late \/ (hb_stopped /\ (sent \/ h.connected # hb.connected)))
    /\ UNCHANGED <<hb_ctl, hb_join_at, hb_now, hb_made, hb_stopped>>
    /\ UNCHANGED excepthb

\* start(): returns at once when _running is set, else sets it and starts a
\* thread
Start ==
    /\ hb_ctl = "idle"
    /\ IF hb.running
       THEN /\ hb_made' = FALSE
            /\ UNCHANGED <<hb, hb_loop>>
       ELSE \E l \in Loops :
               /\ hb_loop[l] \in {"unborn", "done"}
               /\ hb' = [hb EXCEPT !.running = TRUE, !.thread = l]
               /\ hb_loop' = [hb_loop EXCEPT ![l] = "test"]
               /\ hb_made' = TRUE
    /\ hb_stopped' = FALSE
    /\ UNCHANGED <<hb_ctl, hb_join_at>>
    /\ CallerStep("start")

\* stop(): clears _running and, a thread being there, begins to join it;
\* without one it returns
StopBegin ==
    /\ hb_ctl = "idle"
    /\ hb' = [hb EXCEPT !.running = FALSE]
    /\ IF hb.thread = NoThread
       THEN /\ hb_stopped' = TRUE
            /\ UNCHANGED <<hb_ctl, hb_join_at>>
       ELSE /\ hb_ctl' = "joining"
            /\ hb_join_at' = hb_now
            /\ UNCHANGED hb_stopped
    /\ UNCHANGED <<hb_loop, hb_made>>
    /\ CallerStep("stop")

\* stop(): the thread has ended, join() returns, and so does stop()
StopJoined ==
    /\ hb_ctl = "joining"
    /\ hb_loop[hb.thread] = "done"
    /\ hb' = [hb EXCEPT !.thread = NoThread]
    /\ hb_ctl' = "idle"
    /\ hb_stopped' = TRUE
    /\ UNCHANGED <<hb_loop, hb_join_at, hb_made>>
    /\ CallerStep("stopped")

\* stop(): join() gives up after join_timeout_s with the thread still in
\* the loop, and stop() returns
StopTimedOut ==
    /\ hb_ctl = "joining"
    /\ hb_loop[hb.thread] # "done"
    /\ hb_now - hb_join_at >= join_timeout_s
    /\ hb' = [hb EXCEPT !.thread = NoThread]
    /\ hb_ctl' = "idle"
    /\ hb_stopped' = TRUE
    /\ UNCHANGED <<hb_loop, hb_join_at, hb_made>>
    /\ CallerStep("stopped")

\* _monitor_loop: `while self._running` found true
LoopEnter ==
    \E l \in Loops :
        /\ hb_loop[l] = "test" /\ hb.running
        /\ hb_loop' = [hb_loop EXCEPT ![l] = "recv"]
        /\ UNCHANGED hb_msg
        /\ LoopStep("enter", hb, FALSE)

\* _monitor_loop: `while self._running` found false, the thread ends
LoopExit ==
    \E l \in Loops :
        /\ hb_loop[l] = "test" /\ ~hb.running
        /\ hb_loop' = [hb_loop EXCEPT ![l] = "done"]
        /\ UNCHANGED hb_msg
        /\ LoopStep("exit", hb, FALSE)

\* _check_heartbeat: the message is received and, a HEARTBEAT, recorded
LoopReceive ==
    \E l \in Loops, msg \in Messages :
        /\ hb_loop[l] = "recv"
        /\ hb_loop' = [hb_loop EXCEPT ![l] = "check"]
        /\ hb_msg' = msg
        /\ LoopStep("recv", receive_heartbeat(hb, msg, hb_now), FALSE)

\* _check_heartbeat: the timeout test, which ends the call
LoopCheck ==
    \E l \in Loops :
        /\ hb_loop[l] = "check"
        /\ hb_loop' = [hb_loop EXCEPT ![l] = "send"]
        /\ UNCHANGED hb_msg
        /\ LoopStep("check", check_timeout(hb, hb_now), FALSE)

\* _send_heartbeat and time.sleep(0.1)
LoopSend ==
    \E l \in Loops :
        /\ hb_loop[l] = "send"
        /\ hb_loop' = [hb_loop EXCEPT ![l] = "test"]
        /\ UNCHANGED hb_msg
        /\ LoopStep("send", send_heartbeat(hb, hb_now), sends_heartbeat(hb, hb_now))

\* time.time() moves on
WallTick ==
    /\ hb_now < WallStart + MaxBeat
    /\ hb_now' = hb_now + 1
    /\ hb_op' = "clock"
    /\ UNCHANGED <<hb, hb_loop, hb_ctl, hb_join_at, hb_msg, hb_before, hb_made,
                   hb_stopped, hb_late>>
    /\ UNCHANGED excepthb

NextMonitor ==
    \/ Start
    \/ StopBegin
    \/ StopJoined
    \/ StopTimedOut
    \/ LoopEnter
    \/ LoopExit
    \/ LoopReceive
    \/ LoopCheck
    \/ LoopSend
    \/ WallTick

SpecMonitor == Init /\ [][NextMonitor]_vars

-----------------------------------------------------------------------------
(* Two compute_setpoint() calls on one GuidanceController, with the same *)
(* confidence: one offset beyond the alignment threshold, one within     *)

ComputeSetpoints ==
    /\ \E a \in GuidanceArgs :
          LET c == NewController(a.descent_rate) IN
          /\ gd_args' = a
          /\ gd_far' = compute_setpoint(c, a.far[1], a.far[2], 300, 300,
                                        a.confidence)
          /\ gd_near' = compute_setpoint(c, a.near[1], a.near[2], 300, 300,
                                         a.confidence)
    /\ gd_op' = "compute"
    /\ UNCHANGED exceptgd

NextGuidance == ComputeSetpoints

SpecGuidance == Init /\ [][NextGuidance]_vars

-----------------------------------------------------------------------------
(* Properties of SafetySupervisor.clamp_velocity *)

LatLimit(confidence) == (max_lateral_speed_mps * confidence) \div 100
DescLimit(confidence) == (max_descent_speed_mps * confidence) \div 100
SpeedSq(vx, vy) == vx * vx + vy * vy

\* C21: for a confidence in [0, 1], clamp_velocity returns a lateral velocity
\* no faster than max_lateral_speed_mps * confidence that is a non-negative
\* multiple of the one passed in, and the very same when that was within the
\* limit; the returned vz is the smaller of vz and max_descent_speed_mps *
\* confidence, so a climb (negative vz) is returned as passed.
C21_ClampVelocity ==
    clamp_op = "clamp" =>
        LET vx == clamp_args.lateral[1]
            vy == clamp_args.lateral[2]
            vz == clamp_args.vz
            lat == LatLimit(clamp_args.confidence)
            desc == DescLimit(clamp_args.confidence)
            rx == clamp_result[1]
            ry == clamp_result[2]
            rz == clamp_result[3]
        IN  /\ SpeedSq(rx, ry) <= lat * lat
            /\ rx * vy = ry * vx
            /\ rx * vx >= 0
            /\ ry * vy >= 0
            /\ SpeedSq(rx, ry) <= SpeedSq(vx, vy)
            /\ SpeedSq(vx, vy) <= lat * lat => (rx = vx /\ ry = vy)
            /\ rz = (IF vz < desc THEN vz ELSE desc)
            /\ vz < 0 => rz = vz

\* a velocity too fast on both counts has been scaled down and cut
C21_Witness ==
    /\ clamp_op = "clamp"
    /\ clamp_args.confidence = 50
    /\ clamp_args.lateral = <<-120, 160>>
    /\ clamp_args.vz = 36
    /\ clamp_result = <<-45, 60, 35>>

-----------------------------------------------------------------------------
(* Properties of the supervisor's clock *)

\* C22: two SafetySupervisor instances given the same sequence of check()
\* calls with the same arguments report the same violations, however much
\* time passes between the calls of either.
C22_NoHiddenClock ==
    sup_op = "check" =>
        /\ status.is_safe = twin_status.is_safe
        /\ status.violations = twin_status.violations

-----------------------------------------------------------------------------
(* Properties of the filters *)

\* the most recent smoother call was the first update() since construction or
\* reset, resp. an update() of an initialised smoother
FirstUpdate == sm_op = "update" /\ ~is_initialized(sm_before)
LaterUpdate == sm_op = "update" /\ is_initialized(sm_before)

\* the squared distance of the most recent measurement from the state it met,
\* and the squared threshold
DistanceSq == mahal_sq(sm_before, sm_args.measurement)
ThresholdSq == FMul(sm_before.outlier_threshold, sm_before.outlier_threshold)

\* the distance exceeds the threshold, resp. is a number and does not
Beyond == FGt(DistanceSq, ThresholdSq)
Within == ~IsNaN(DistanceSq) /\ ~FGt(DistanceSq, ThresholdSq)

\* alpha * a + (1 - alpha) * b for one component
Mix(alpha, a, b) == FAdd(FMul(alpha, a), FMul(FSub(Num(1), alpha), b))

C24_NonFiniteRejected ==
    /\ is_initialized(sm) => VFinite(sm.state)
    /\ kf.initialized => \A i \in States : IsFinite(kf.x[i])

\* C25: every variance of every FilteredPose ExpSmoother.update returns is at
\* least the floor the outlier test uses, so never zero.
C25_VarianceFloor ==
    sm_op = "update" =>
        \A i \in Axes :
            /\ ~IsNaN(sm_pose.variance[i])
            /\ ~FGt(var_floor, sm_pose.variance[i])

\* C26: a finite measurement that is presented on every update and rejected
\* is accepted after finitely many rejections, for every outlier_threshold >
\* 0 and initial_variance >= 0; so no rejection leaves the smoother exactly
\* as it was, for the same measurement would then be rejected the same way
\* on every later update.
C26_Readmission ==
    (LaterUpdate /\ Beyond /\ VFinite(sm_args.measurement)
                 /\ VFinite(sm_before.state)) =>
        sm # sm_before

\* C27: an update that is not rejected returns position alpha * measurement +
\* (1 - alpha) * old position and variance alpha * measurement_variance +
\* (1 - alpha) * old variance; with alpha = 0.5, update([1,1,1], t=0) returns
\* [1,1,1] and update([3,1,1], t=1) then returns [2,1,1]; and the velocity
\* changes only in an update whose timestamp is later than the stored one.
C27_AcceptedUpdate ==
    /\ (LaterUpdate /\ ~Beyond) =>
          \A i \in Axes :
             /\ sm_pose.position[i] = Mix(sm.alpha, sm_args.measurement[i],
                                          sm_before.state[i])
             /\ sm_pose.variance[i] = Mix(sm.alpha, sm_args.measurement_variance,
                                          sm_before.variance[i])
    /\ (FirstUpdate /\ sm_args.measurement = Vec(1, 1, 1)) =>
          sm_pose.position = Vec(1, 1, 1)
    /\ (/\ LaterUpdate
        /\ sm.alpha = Frac(1, 2)
        /\ sm.outlier_threshold = Num(4)
        /\ sm_before.state = Vec(1, 1, 1)
        /\ sm_before.variance = VFull(Num(1))
        /\ sm_args.measurement = Vec(3, 1, 1)) =>
          sm_pose.position = Vec(2, 1, 1)
    /\ (sm_op = "update" /\ sm.velocity # sm_before.velocity) =>
          /\ is_initialized(sm_before)
          /\ sm_args.timestamp > sm_before.last_time

\* the second update of the example: [3,1,1] at t=1 after [1,1,1] at t=0
C27_Witness ==
    /\ LaterUpdate
    /\ sm_calls = 2
    /\ sm.alpha = Frac(1, 2)
    /\ sm_before.state = Vec(1, 1, 1)
    /\ sm_before.last_time = 0
    /\ sm_args.measurement = Vec(3, 1, 1)
    /\ sm_args.timestamp = 1
    /\ sm_pose.position = Vec(2, 1, 1)
    /\ sm.velocity = Vec(1, 0, 0)

\* C28: each filter reports is_initialized false after construction and after
\* reset() and true after any update(); the first update() after either
\* returns the measurement as position, zero velocity and the initial
\* variance (initial_variance, resp. the identity covariance), whatever the
\* filter saw before the reset.
C28_Lifecycle ==
    /\ sm_op \in {"init", "reset"} => ~is_initialized(sm)
    /\ sm_op = "update" => is_initialized(sm)
    /\ FirstUpdate =>
          /\ sm_pose.position = sm_args.measurement
          /\ sm_pose.velocity = Vec(0, 0, 0)
          /\ sm_pose.variance = VFull(sm.initial_variance)
    /\ kf_op \in {"init", "reset"} => ~kf.initialized
    /\ kf_op = "update" => kf.initialized
    /\ (kf_op = "update" /\ ~kf_before.initialized) =>
          /\ kf_pose.position = kf_args.measurement
          /\ kf_pose.velocity = Vec(0, 0, 0)
          /\ kf_pose.variance = VFull(Num(1))

\* both filters have been updated, reset and updated again
C28_Witness ==
    /\ FirstUpdate
    /\ sm_calls = 3
    /\ kf_op = "update"
    /\ ~kf_before.initialized
    /\ kf_pose.position = Vec(1, 1, 1)
    /\ sm_pose.position = Vec(1, 1, 1)

\* C29: a dt passed to KalmanFilter3D.update is used for that call only: an
\* update that passes no dt predicts with the dt given at construction, and
\* after reset() the filter holds the constructor's dt again.
C29_DtOverrideTransient ==
    /\ (kf_op = "update" /\ kf_before.initialized /\ kf_args.dt = NoDt) =>
          /\ kf.F_dt = kf_ctor_dt
          /\ kf.dt = kf_ctor_dt
    /\ kf_op = "reset" => (kf.F_dt = kf_ctor_dt /\ kf.dt = kf_ctor_dt)

-----------------------------------------------------------------------------
(* Properties of RateLimiter *)

\* C30: with several threads calling should_run and wait_and_run on one
\* RateLimiter, any two grants are at least interval_s apart on the monotonic
\* clock, measured when each grant is made, and the stored last-grant time
\* never decreases.
C30_GrantsSpaced ==
    /\ rl_prev_grant # NoTime => rl_grant - rl_prev_grant >= interval_s
    /\ rl_last_time = rl_peak


\* C31: on a newly constructed RateLimiter and after any reset(), the next
\* should_run() returns True and time_until_next() returns 0, whatever the
\* monotonic clock reads; time_until_next() returns 0 exactly when a
\* should_run() at the same instant would return True, and it never changes
\* _last_time.
C31_ImmediateAfterReset ==
    /\ (rq_op = "should_run" /\ rq_was_fresh) => rq_ret
    /\ (rq_op = "time_until_next" /\ rq_was_fresh) => rq_wait = 0
    /\ rq_op = "time_until_next" =>
          /\ (rq_wait = 0) <=> should_run(rq_before, rq_at).ret
          /\ rl_last_time = rq_before


-----------------------------------------------------------------------------
(* Properties of BurstLimiter *)

\* the bucket after elapsed ticks of regeneration at one token per interval_s,
\* kept at or below burst
Regenerated(b, elapsed) ==
    LET t == Frac(b.tokens.n * interval_s + elapsed * b.tokens.d,
                  b.tokens.d * interval_s)
    IN  IF FGt(t, Num(burst)) THEN Num(burst) ELSE t

\* C32: after every BurstLimiter.should_run call 0 <= tokens <= burst; from a
\* full bucket with no time elapsing exactly burst consecutive calls return
\* True and the next returns False; tokens regenerate at one per interval_s,
\* and a grant consumes exactly one token.
C32_TokenBucket ==
    /\ ~FGt(Num(0), bl.tokens) /\ ~FGt(bl.tokens, Num(burst))
    /\ bl_run \in 1 .. burst => bl_ret
    /\ bl_run = burst + 1 => ~bl_ret
    /\ bl_op = "should_run" =>
          LET filled == Regenerated(bl_before, bl.last_time - bl_before.last_time)
          IN  bl.tokens = IF bl_ret THEN FSub(filled, Num(1)) ELSE filled

\* the bucket was full, burst calls were granted with no time elapsing and
\* one more call has been refused
C32_Witness == bl_run = burst + 1 /\ ~bl_ret /\ bl.tokens = Num(0)


-----------------------------------------------------------------------------
(* Properties of LandingTargetPublisher *)

\* the most recent call is a non-forced publish() made less than one interval
\* after the previous non-forced publish() the limiter granted
TooSoon ==
    /\ pub_op = "publish" /\ ~pub_force
    /\ pub_prev_grant_at # NoTime
    /\ pub_at - pub_prev_grant_at < interval_s

\* message_count is the number of publish() calls since the latest reset()
\* that returned True
CountsSuccesses == pub_msg_count = pub_true_count

\* publish(force=True) attempts the send and leaves the limiter as it was
ForceBypasses ==
    (pub_op = "publish" /\ pub_force) =>
        pub_sent /\ rl_last_time = pub_limiter_before

\* C33 as stated: after any sequence of publish and reset calls message_count
\* equals the number of publish calls since the last reset that returned
\* True; a non-forced publish made less than one interval after the previous
\* granted non-forced publish sends nothing and returns False;
\* publish(force=True) always attempts the send and does not move the
\* limiter's interval.
C33_PublisherThrottled ==
    /\ CountsSuccesses
    /\ TooSoon => (~pub_sent /\ ~pub_ret)
    /\ ForceBypasses

\* C33 as amended: the same, the throttling being claimed only when no
\* reset() came between the two non-forced publish calls.
C33_ThrottledBetweenResets ==
    /\ CountsSuccesses
    /\ (TooSoon /\ ~pub_prev_reset) => (~pub_sent /\ ~pub_ret)
    /\ ForceBypasses

\* a non-forced publish refused for coming too soon after a granted one, with
\* messages counted and a forced publish sent in between
C33_Witness ==
    /\ TooSoon /\ ~pub_prev_reset /\ ~pub_sent
    /\ pub_msg_count = 2
    /\ pub_limiter_before = pub_prev_grant_at


-----------------------------------------------------------------------------
(* Properties of LandingFSM over a whole run *)

Aborted == {"ABORT", "FAILSAFE"}

\* C34: between resets, a tick taken in Abort or Failsafe ends in Abort or
\* Failsafe whatever the inputs, and in every tick output abort_reason is
\* set exactly when the state is Abort or Failsafe.
C34_AbortedClosed ==
    last_op = "tick" =>
        /\ fsm.prev_state \in Aborted => fsm.state \in Aborted
        /\ outputs.abort_reason # "None" <=> outputs.state \in Aborted

\* a tick taken in Abort with a link down: Failsafe, the reason replaced
C34_Witness ==
    /\ last_op = "tick" /\ fsm.prev_state = "ABORT"
    /\ outputs.state = "FAILSAFE" /\ outputs.abort_reason = "link_lost"


\* the state the latest tick entered, and the state it was taken in
Entered(s) == last_op = "tick" /\ fsm.state = s /\ fsm.prev_state # s

\* C35: between resets a tick enters Touchdown only from Descend, Descend only
\* from Align, Align only from Acquire and Acquire only from Idle or Search,
\* one stage per tick; so a run that has reached Touchdown contains a tick
\* taken in Acquire with the target visible and variance < max_variance and,
\* later, a tick taken in Align with the target visible and lateral_error_m
\* <= align_error_m.
C35_StageOrder ==
    /\ Entered("TOUCHDOWN") => fsm.prev_state = "DESCEND"
    /\ Entered("DESCEND") => fsm.prev_state = "ALIGN"
    /\ Entered("ALIGN") => fsm.prev_state = "ACQUIRE"
    /\ Entered("ACQUIRE") => fsm.prev_state \in {"IDLE", "SEARCH"}
    /\ fsm.state = "TOUCHDOWN" => gates_passed = 2

\* a tick entered Touchdown from Descend, both gates passed on the way
C35_Witness ==
    /\ Entered("TOUCHDOWN") /\ fsm.prev_state = "DESCEND"
    /\ gates_passed = 2


\* in Search the count is the length of the current run of qualifying Search
\* ticks, and a tick that enters Search finds it at 0
CountsThisEpisode ==
    /\ Entered("SEARCH") => fsm.consecutive_detections = 0
    /\ fsm.state = "SEARCH" => fsm.consecutive_detections = search_streak

\* C36 as stated: every entry into Search starts with a detection count of 0,
\* qualifying ticks seen in other states or in an earlier Search episode never
\* count toward the next Search to Acquire transition, and the count is 0
\* whenever the state is not Search.
C36_CountZeroOutsideSearch ==
    /\ CountsThisEpisode
    /\ fsm.state # "SEARCH" => fsm.consecutive_detections = 0

\* C36 as amended: the same, the count being 0 whenever the state is none of
\* Search, Abort and Failsafe.
C36_CountZeroWhileLanding ==
    /\ CountsThisEpisode
    /\ fsm.state \notin ({"SEARCH"} \cup Aborted) => fsm.consecutive_detections = 0

\* Search entered from Align or Descend after the target-lost timeout, an
\* earlier Search episode having led to Acquire
C36_Witness ==
    /\ Entered("SEARCH") /\ fsm.prev_state \in {"ALIGN", "DESCEND"}
    /\ fsm.consecutive_detections = 0
    /\ gates_passed >= 1


-----------------------------------------------------------------------------
(* Properties of HeartbeatMonitor *)

\* a HEARTBEAT has been received and is no older than timeout_s
HeartbeatFresh ==
    hb.last_recv_time # NoTime /\ hb_now - hb.last_recv_time <= timeout_s

\* C37: with the clock never running back, after every completed
\* _check_heartbeat is_connected is true iff a HEARTBEAT has been received and
\* its age is at most timeout_s; it is false before the first HEARTBEAT, a
\* message that is not a HEARTBEAT never sets it, and a HEARTBEAT received
\* after a timeout sets it back to true.
C37_ConnectedIffFresh ==
    /\ hb_op = "check" => (hb.connected <=> HeartbeatFresh)
    /\ hb.last_recv_time = NoTime => ~hb.connected
    /\ (hb_op = "recv" /\ hb_msg # "HEARTBEAT") => hb.connected = hb_before.connected
    /\ (hb_op = "recv" /\ hb_msg = "HEARTBEAT") => hb.connected

\* a HEARTBEAT received after a timeout had been found
C37_Witness ==
    /\ hb_op = "recv" /\ hb_msg = "HEARTBEAT"
    /\ hb_before.last_recv_time # NoTime /\ ~hb_before.connected
    /\ hb.connected

\* C38: under every interleaving of start() and stop() with the background
\* loop, a stop() whose join times out included, at most one monitor loop
\* runs at any time, a start() made while running creates no thread, and once
\* stop() has returned no heartbeat is sent and is_connected is not modified.
C38_OneLoopAndQuietAfterStop ==
    /\ Cardinality({l \in Loops : Looping(l)}) <= 1
    /\ (hb_op = "start" /\ hb_before.running) => ~hb_made
    /\ ~hb_late


-----------------------------------------------------------------------------
(* Properties of SafetySupervisor.check and its altitude argument *)

-----------------------------------------------------------------------------
(* Properties of GuidanceController.compute_setpoint *)

\* C40: for the same confidence in [0, 1] and a base descent rate >= 0, the
\* vz commanded for an offset beyond alignment_threshold_m never exceeds the
\* vz commanded for an offset within it; yaw_rate is 0 in both.
C40_DescentGated ==
    gd_op = "compute" =>
        /\ ~FGt(gd_far.vz, gd_near.vz)
        /\ gd_far.yaw_rate = Num(0) /\ gd_near.yaw_rate = Num(0)

====
